---- MODULE Spec2Model ----
(***************************************************************************)
(* Model of voice-agent (src/src/voice_agent):                             *)
(*   - extract_keywords_from_window and get_command_for_agent, the pure   *)
(*     keyword-routing functions of agents.py (specification SpecExtract); *)
(*   - the session store kept in .agent-session.json, as used by the      *)
(*     request handlers of main.py (specification Spec);                   *)
(*   - undo_last and execute_command of commands.py (SpecUndo, SpecExec);  *)
(*   - process_voice, chat and chat_audio of main.py (SpecVoice, SpecChat);*)
(*   - ask_claude and stream_claude of claude.py (SpecAsk, SpecStream).    *)
(* A Python str is a sequence of one-character strings, so that lower(),   *)
(* split(), join() and the substring test are computed, not assumed.       *)
(***************************************************************************)
EXTENDS Integers, Sequences, FiniteSets, TLC

VARIABLES
    fn,            \* which routing function the caller invokes
    text,          \* extract_keywords_from_window: text
    raw,           \* what voice-agent-config.yaml holds
    config,        \* VoiceAgentConfig (both functions)
    window_size,   \* extract_keywords_from_window: window_size
    command_name,  \* get_command_for_agent: command_name
    agent_name,    \* get_command_for_agent: agent_name
    result,        \* the value returned by the call
    pc,            \* "call" before the function ran, "done" after
    file,          \* content of SESSION_FILE
    req,           \* the in-flight requests' session-store calls
    lastCall,      \* the last session-store call: op, argument, file before, outcome
    lastSaved,     \* argument of the last save_current_agent that returned
    fs,            \* the files undo_last works on, per agent directory
    undo,          \* the caller of undo_last: its arguments and what it got back
    exec,          \* the caller of execute_command: its arguments and what it got back
    voice,         \* process_voice: where the handler is, its locals, its response
    calls,         \* process_voice: the commands, undos and LLM calls of the request
    chat,          \* chat, chat_audio: where the handler is and its locals
    ask,           \* ask_claude: where the call is, its locals and the session file
    stream         \* stream_claude: the generator, its subprocess and its watchdog

routeVars == <<fn, text, raw, config, window_size, command_name, agent_name, result, pc>>
sessionVars == <<file, req, lastCall, lastSaved>>
undoVars == <<fs, undo, exec>>
voiceVars == <<voice, calls, chat, ask, stream>>
vars == <<fn, text, raw, config, window_size, command_name, agent_name, result, pc,
          file, req, lastCall, lastSaved, fs, undo, exec, voice, calls, chat,
          ask, stream>>

----------------------------------------------------------------------------
(* Bounds of the model *)

\* longest utterance, in words
MaxWords == 4

\* longest utterance that names the hyphenated agent, in words
MaxHyphenWords == 3

\* longest food journal, in lines
MaxLines == 3

\* longest notes document, in blocks
MaxBlocks == 4

\* most calls of undo_last one caller makes in a row
MaxUndoCalls == 3

\* most voice requests served one after the other
MaxVoiceRequests == 2

\* window_size when the caller passes none
DefaultWindowSize == 5

----------------------------------------------------------------------------
(* Python values *)

\* Python's None; no str, since every element of a str is one character
None == <<"None">>

\* None where the other values are records (a CommandConfig, a dict)
Nothing == [none |-> TRUE]

\* the empty str
EmptyStr == <<>>

\* bool(x) for an Optional[str]: None and "" are falsy
Truthy(x) == x /= None /\ x /= EmptyStr

W_agent == <<"a", "g", "e", "n", "t">>
W_diet == <<"d", "i", "e", "t">>
W_budget == <<"b", "u", "d", "g", "e", "t">>
W_diet_log == <<"d", "i", "e", "t", "-", "l", "o", "g">>
W_log == <<"l", "o", "g">>
W_add == <<"a", "d", "d">>
W_listen == <<"l", "i", "s", "t", "e", "n">>
W_pizza == <<"p", "i", "z", "z", "a">>
W_undo == <<"u", "n", "d", "o">>
W_logging == <<"l", "o", "g", "g", "i", "n", "g">>

\* characters str.split() treats as separators
Whitespace == {" ", "\t"}

\* str.lower() on one character (the letters the utterances use)
LowerChar(c) ==
    CASE c = "A" -> "a"
      [] c = "D" -> "d"
      [] c = "L" -> "l"
      [] c = "P" -> "p"
      [] OTHER -> c

UpperChar(c) ==
    CASE c = "a" -> "A"
      [] c = "d" -> "D"
      [] c = "l" -> "L"
      [] c = "p" -> "P"
      [] OTHER -> c

\* str.lower()
Lower(s) == [i \in 1..Len(s) |-> LowerChar(s[i])]

\* str.replace("-", " ")
ReplaceHyphens(s) == [i \in 1..Len(s) |-> IF s[i] = "-" THEN " " ELSE s[i]]

\* str.split(): the maximal runs of non-whitespace characters, in order
RECURSIVE SplitFrom(_, _, _)
SplitFrom(s, i, cur) ==
    IF i > Len(s)
    THEN IF cur = <<>> THEN <<>> ELSE <<cur>>
    ELSE IF s[i] \in Whitespace
         THEN IF cur = <<>>
              THEN SplitFrom(s, i + 1, <<>>)
              ELSE <<cur>> \o SplitFrom(s, i + 1, <<>>)
         ELSE SplitFrom(s, i + 1, Append(cur, s[i]))

Split(s) == SplitFrom(s, 1, <<>>)

\* sep.join(ws)
RECURSIVE JoinWith(_, _)
JoinWith(ws, sep) ==
    IF ws = <<>> THEN <<>>
    ELSE IF Len(ws) = 1 THEN ws[1]
    ELSE ws[1] \o sep \o JoinWith(Tail(ws), sep)

\* " ".join(ws)
Join(ws) == JoinWith(ws, <<" ">>)

\* needle in hay, for two str
Contains(hay, needle) ==
    \E i \in 0..(Len(hay) - Len(needle)) :
        SubSeq(hay, i + 1, i + Len(needle)) = needle

InList_substring(x, lst) == \E i \in 1..Len(lst) : Contains(lst[i], x)

\* x in lst, for a list
InList(x, lst) == \E i \in 1..Len(lst) : lst[i] = x

\* lst[:n]
Take(lst, n) == SubSeq(lst, 1, IF n < Len(lst) THEN n ELSE Len(lst))

\* lst[n:], n counted from 0
Drop(lst, n) == SubSeq(lst, n + 1, Len(lst))

\* max() of a non-empty set of integers
Max(S) == CHOOSE m \in S : \A x \in S : x <= m

----------------------------------------------------------------------------
(* Configurations *)

\* CommandConfig(name, agents, silent, aliases)
CommandConfig(name, agents, silent, aliases) ==
    [name |-> name, agents |-> agents, silent |-> silent, aliases |-> aliases]

Triggers_always(name) ==
    <<name \o <<" ">> \o W_agent, ReplaceHyphens(name) \o <<" ">> \o W_agent>>

\* the auto-generated triggers of an agent
Triggers(name) ==
    IF InList("-", name)
    THEN <<name \o <<" ">> \o W_agent, ReplaceHyphens(name) \o <<" ">> \o W_agent>>
    ELSE <<name \o <<" ">> \o W_agent>>

\* AgentConfig(name, path, triggers)
AgentConfig(name) ==
    [name |-> name, path |-> <<"/", "a", "/">> \o name, triggers |-> Triggers(name)]

\* dicts keep insertion order: a mapping is the sequence of its items

\* a key of the YAML mapping: present with a value, or missing
Some(x) == <<x>>
Missing == <<>>

\* a command of the YAML mapping
RawCommand(name, agents, silent, aliases) ==
    [name |-> name, agents |-> agents, silent |-> silent, aliases |-> aliases]

\* an agent of the YAML mapping
RawAgent(name) == [name |-> name, path |-> <<"/", "a", "/">> \o name]

\* a key a dict of str values does not hold
Absent == <<"absent">>

\* data.get(key, default)
GetOr(v, default) == IF Len(v) = 0 THEN default ELSE v[1]

\* VoiceAgentConfig(): no agents, no commands
CfgEmpty == [agents |-> <<>>, commands |-> <<>>]

\* load_agents_config() on what the configuration file holds (NoConfigFile:
\* there is no such file); the keywords, used for transcription only, are left out
NoConfigFile == [missing |-> TRUE]

load_agents_config(r) ==
    IF r = NoConfigFile THEN CfgEmpty
    ELSE [agents |-> [i \in 1..Len(r.agents) |-> AgentConfig(r.agents[i].name)],
          commands |->
              [i \in 1..Len(r.commands) |->
                  CommandConfig(r.commands[i].name,
                                GetOr(r.commands[i].agents, <<>>),
                                GetOr(r.commands[i].silent, FALSE),
                                GetOr(r.commands[i].aliases, <<>>))]]

\* the configuration the repository's tests read: log is reserved to diet and
\* has the alias add, listen is universal
RawDiet ==
    [agents |-> <<RawAgent(W_budget), RawAgent(W_diet)>>,
     commands |-> <<RawCommand(W_log, Some(<<W_diet>>), Some(TRUE), Some(<<W_add>>)),
                    RawCommand(W_listen, Missing, Missing, Missing)>>]

CfgDiet == load_agents_config(RawDiet)

\* a hyphenated agent declared before the agent it extends
RawHyphen ==
    [agents |-> <<RawAgent(W_diet_log), RawAgent(W_diet)>>,
     commands |-> <<RawCommand(W_listen, Some(<<>>), Some(TRUE), Some(<<W_add>>)),
                    RawCommand(W_log, Some(<<W_diet>>), Some(TRUE), Missing)>>]

CfgHyphen == load_agents_config(RawHyphen)

\* the same agents the other way round: the hyphenated agent declared last
RawOverlap ==
    [agents |-> <<RawAgent(W_diet), RawAgent(W_diet_log)>>,
     commands |-> RawHyphen.commands]

CfgOverlap == load_agents_config(RawOverlap)

RawConfigs == {RawDiet, RawHyphen, NoConfigFile}

Configs == {load_agents_config(r) : r \in RawConfigs}

\* two universal commands
RawUniversal ==
    [agents |-> <<RawAgent(W_diet)>>,
     commands |-> <<RawCommand(W_log, Missing, Some(TRUE), Missing),
                    RawCommand(W_pizza, Some(<<>>), Missing, Missing)>>]

\* the configurations with a hyphenated agent, and one without restricted commands
HyphenRawConfigs == {RawHyphen, RawOverlap, RawUniversal}

\* window sizes the callers may pass
WindowSizes == {2, 3}

\* words of the utterances
Vocabulary == {W_agent, W_diet, W_log, W_add, W_listen, W_pizza}

WordSeqs == UNION {[1..n -> Vocabulary] : n \in 0..MaxWords}

\* utterances that name the hyphenated agent
HyphenVocabulary == {W_agent, W_diet_log, W_diet, W_log, W_logging, W_pizza}

HyphenWordSeqs == UNION {[1..n -> HyphenVocabulary] : n \in 1..MaxHyphenWords}

Capitalize(w) == [i \in 1..Len(w) |-> IF i = 1 THEN UpperChar(w[i]) ELSE w[i]]

\* how the transcription spells and spaces the words
Styles == {"plain", "messy"}

Render(ws, style) ==
    IF style = "plain"
    THEN Join(ws)
    ELSE <<" ">> \o JoinWith([i \in 1..Len(ws) |-> Capitalize(ws[i])], <<" ", "\t">>)

----------------------------------------------------------------------------
(* extract_keywords_from_window *)

Words(t) == Split(Lower(t))

Window_unbounded(words, ws) == words

\* window = words[:window_size]
Window(words, ws) == Take(words, ws)

InitialResult_normalised(t) ==
    [has_agent_keyword |-> FALSE, agent_name |-> None, command |-> None,
     message |-> Join(Words(t))]

\* the result before anything is found
InitialResult(t) ==
    [has_agent_keyword |-> FALSE, agent_name |-> None, command |-> None,
     message |-> t]

AgentVariantMatches_prefix(name, window_text) ==
    /\ Len(name) <= Len(window_text)
    /\ \/ SubSeq(window_text, 1, Len(name)) = name
       \/ SubSeq(window_text, 1, Len(name)) = ReplaceHyphens(name)

AgentVariantMatches_exact(name, window_text) == Contains(window_text, name)

\* whether one of the agent's two variants occurs in the window text
AgentVariantMatches(name, window_text) ==
    \/ Contains(window_text, name)
    \/ Contains(window_text, ReplaceHyphens(name))

\* the loop over config.agents, from item i on, cur being result["agent_name"]
RECURSIVE FindAgentFrom(_, _, _, _)
FindAgentFrom(agents, window_text, i, cur) ==
    IF i > Len(agents) THEN cur
    ELSE LET found == IF AgentVariantMatches(agents[i].name, window_text)
                      THEN agents[i].name ELSE cur
         IN  IF Truthy(found) THEN found
             ELSE FindAgentFrom(agents, window_text, i + 1, found)

FindAgent_last(cfg, window_text) ==
    FindAgentFrom([i \in 1..Len(cfg.agents) |-> cfg.agents[Len(cfg.agents) + 1 - i]],
                  window_text, 1, None)

FindAgent(cfg, window_text) == FindAgentFrom(cfg.agents, window_text, 1, None)

CommandSkipped_never(cmd, agent) == FALSE

CommandSkipped_default(cmd, agent) ==
    agent = None \/ (cmd.agents /= <<>> /\ ~InList(agent, cmd.agents))

\* the allow-list test of the command loop: TRUE when the command is skipped
CommandSkipped(cmd, agent) ==
    cmd.agents /= <<>> /\ ~InList(agent, cmd.agents)

\* [cmd_name] + cmd.aliases
AllNames(cmd) == <<cmd.name>> \o cmd.aliases

MatchedCommand_alias(cmd, window) ==
    AllNames(cmd)[CHOOSE k \in 1..Len(AllNames(cmd)) :
                     /\ InList(AllNames(cmd)[k], window)
                     /\ \A j \in 1..(k - 1) : ~InList(AllNames(cmd)[j], window)]

\* the value the inner loop records for a command one of whose names is in window
MatchedCommand(cmd, window) ==
    cmd.name

\* the loop over config.commands, from item i on, cur being result["command"]
RECURSIVE FindCommandFrom(_, _, _, _, _)
FindCommandFrom(commands, agent, window, i, cur) ==
    IF i > Len(commands) THEN cur
    ELSE LET cmd == commands[i]
         IN  IF CommandSkipped(cmd, agent)
             THEN FindCommandFrom(commands, agent, window, i + 1, cur)
             ELSE LET found == IF \E k \in 1..Len(AllNames(cmd)) :
                                      InList(AllNames(cmd)[k], window)
                               THEN MatchedCommand(cmd, window) ELSE cur
                  IN  IF Truthy(found) THEN found
                      ELSE FindCommandFrom(commands, agent, window, i + 1, found)

FindCommand(cfg, agent, window) ==
    FindCommandFrom(cfg.commands, agent, window, 1, None)

\* whether the word at a window position is recorded as a keyword position
IsKeyword_canonical(word, cfg) ==
    \/ word = W_agent
    \/ \E c \in 1..Len(cfg.commands) : word = cfg.commands[c].name
    \/ \E a \in 1..Len(cfg.agents) : word = cfg.agents[a].name

IsKeyword(word, cfg) ==
    \/ word = W_agent
    \/ \E c \in 1..Len(cfg.commands) :
           word = cfg.commands[c].name \/ InList(word, cfg.commands[c].aliases)
    \/ \E a \in 1..Len(cfg.agents) :
           \/ InList(word, Split(ReplaceHyphens(cfg.agents[a].name)))
           \/ word = cfg.agents[a].name

\* keyword_positions, 0-based
KeywordPositions(words, cfg, ws) ==
    {i \in 0..(Len(Take(words, ws)) - 1) : IsKeyword(words[i + 1], cfg)}

Message_none(t, words, cfg, ws) == None

\* result["message"] once the agent keyword was found
Message(t, words, cfg, ws) ==
    LET kp == KeywordPositions(words, cfg, ws)
    IN  IF kp /= {} THEN Join(Drop(words, Max(kp) + 1)) ELSE t

extract_keywords_from_window(t, cfg, ws) ==
    LET words == Words(t)
        window == Window(words, ws)
        window_text == Join(window)
    IN  IF ~InList(W_agent, window)
        THEN InitialResult(t)
        ELSE LET agent == FindAgent(cfg, window_text)
             IN  [has_agent_keyword |-> TRUE,
                  agent_name |-> agent,
                  command |-> FindCommand(cfg, agent, window),
                  message |-> Message(t, words, cfg, ws)]

----------------------------------------------------------------------------
(* get_command_for_agent *)

\* config.commands.get(command_name): the item's index, 0 for None
CommandIndex(cfg, name) ==
    IF \E i \in 1..Len(cfg.commands) : cfg.commands[i].name = name
    THEN CHOOSE i \in 1..Len(cfg.commands) : cfg.commands[i].name = name
    ELSE 0

CommandAllowed_always(cmd, agent) == TRUE

\* the allow-list test: universal command, or agent in the allow-list
CommandAllowed(cmd, agent) ==
    cmd.agents = <<>> \/ InList(agent, cmd.agents)

get_command_for_agent(name, agent, cfg) ==
    LET i == CommandIndex(cfg, name)
    IN  IF i = 0 THEN Nothing
        ELSE IF CommandAllowed(cfg.commands[i], agent) THEN cfg.commands[i]
        ELSE Nothing

----------------------------------------------------------------------------
(* The session file: json.dumps / json.loads of the session record *)

\* JSON text
JNull == [t |-> "null"]
JStr(s) == [t |-> "str", s |-> s]
JAbsent == [t |-> "absent"]
JList == [t |-> "list"]

\* a pathlib.Path and str() of it
Path(s) == [path |-> s]
StrOfPath(p) == p.path

\* json.dumps of an Optional[str] value, or of a missing key
DumpOpt(v) ==
    IF v = Absent THEN JAbsent ELSE IF v = None THEN JNull ELSE JStr(v)

\* json.loads of it
LoadOpt(j) ==
    IF j = JAbsent THEN Absent ELSE IF j = JNull THEN None ELSE j.s

\* the session dict with no key
EmptyDict == [current_agent |-> Absent, last_command |-> Nothing, extra |-> Absent]

\* json.dumps(data) of a session dict
Dumps(data) ==
    [t |-> "obj",
     current_agent |-> DumpOpt(data.current_agent),
     last_command |->
         IF data.last_command = Nothing THEN JAbsent
         ELSE [t |-> "obj",
               agent |-> DumpOpt(data.last_command.agent),
               command |-> DumpOpt(data.last_command.command),
               message |-> DumpOpt(data.last_command.message),
               agent_path |-> DumpOpt(data.last_command.agent_path)],
     extra |-> DumpOpt(data.extra)]

\* json.loads(text) of valid JSON: a dict, or what a non-object text gives
Loads(j) ==
    IF j.t /= "obj" THEN [nondict |-> j.t]
    ELSE [current_agent |-> LoadOpt(j.current_agent),
          last_command |->
              IF j.last_command = JAbsent THEN Nothing
              ELSE [agent |-> LoadOpt(j.last_command.agent),
                    command |-> LoadOpt(j.last_command.command),
                    message |-> LoadOpt(j.last_command.message),
                    agent_path |-> LoadOpt(j.last_command.agent_path)],
          extra |-> LoadOpt(j.extra)]

IsDict(d) == "current_agent" \in DOMAIN d

\* SESSION_FILE: absent; present but read_text and write_text fail with OSError
\* (a directory, no permission); bytes that do not decode to text; text that is
\* not JSON; JSON text
MissingFile == [kind |-> "missing"]
UnreadableFile == [kind |-> "unreadable"]
UndecodableFile == [kind |-> "undecodable"]
InvalidFile == [kind |-> "invalid"]
JsonFile(j) == [kind |-> "json", value |-> j]

\* SESSION_FILE.exists()
Exists(f) == f.kind /= "missing"

\* json.loads(SESSION_FILE.read_text()): the value, or the exception raised
ReadJson(f) ==
    CASE f.kind = "unreadable" -> [exc |-> "OSError", data |-> EmptyDict]
      [] f.kind = "undecodable" -> [exc |-> "UnicodeDecodeError", data |-> EmptyDict]
      [] f.kind = "invalid" -> [exc |-> "JSONDecodeError", data |-> EmptyDict]
      [] OTHER -> [exc |-> "none", data |-> Loads(f.value)]

\* SESSION_FILE.write_text(json.dumps(data))
WriteText(f, data) ==
    IF f.kind = "unreadable"
    THEN [file |-> f, exc |-> "OSError"]
    ELSE [file |-> JsonFile(Dumps(data)), exc |-> "none"]

----------------------------------------------------------------------------
(* The session store.  A function reads the file once and, when it saves,  *)
(* writes it once: "seen" is the file as the read found it, f the file the *)
(* write replaces.  Each gives the file it leaves, the value it returns    *)
(* and the exception it raises ("none": it returned).                      *)

Outcome(f, ret, exc) == [file |-> f, ret |-> ret, exc |-> exc]

\* except (json.JSONDecodeError, OSError)
Caught == {"JSONDecodeError", "OSError"}

\* _load_session_data(): the dict, {} for a caught exception, or the exception
_load_session_data(seen) ==
    IF ~Exists(seen) THEN [exc |-> "none", data |-> EmptyDict]
    ELSE IF ReadJson(seen).exc \in Caught THEN [exc |-> "none", data |-> EmptyDict]
    ELSE ReadJson(seen)

\* dict.get(key) of an Optional[str] entry
GetOpt(v) == IF v = Absent THEN None ELSE v

load_current_agent(seen, f) ==
    IF ~Exists(seen) THEN Outcome(f, None, "none")
    ELSE IF ReadJson(seen).exc \in Caught THEN Outcome(f, None, "none")
    ELSE IF ReadJson(seen).exc /= "none" THEN Outcome(f, None, ReadJson(seen).exc)
    ELSE IF ~IsDict(ReadJson(seen).data) THEN Outcome(f, None, "AttributeError")
    ELSE Outcome(f, GetOpt(ReadJson(seen).data.current_agent), "none")

WithCurrentAgent_overwrite(data, a) == [EmptyDict EXCEPT !.current_agent = a]

\* the dict save_current_agent writes
WithCurrentAgent(data, a) == [data EXCEPT !.current_agent = a]

save_current_agent(seen, f, a) ==
    LET r == _load_session_data(seen)
    IN  IF r.exc /= "none" THEN Outcome(f, None, r.exc)
        ELSE IF ~IsDict(r.data) THEN Outcome(f, None, "TypeError")
        ELSE LET w == WriteText(f, WithCurrentAgent(r.data, a))
             IN  Outcome(w.file, None, w.exc)

\* the snapshot save_last_command stores
LastCommandRecord(c) ==
    [agent |-> c.agent_name, command |-> c.command, message |-> c.message,
     agent_path |-> StrOfPath(c.agent_path)]

WithLastCommand_overwrite(data, c) ==
    [EmptyDict EXCEPT !.last_command = LastCommandRecord(c)]

\* the dict save_last_command writes
WithLastCommand(data, c) == [data EXCEPT !.last_command = LastCommandRecord(c)]

save_last_command(seen, f, c) ==
    LET r == _load_session_data(seen)
    IN  IF r.exc /= "none" THEN Outcome(f, None, r.exc)
        ELSE IF ~IsDict(r.data) THEN Outcome(f, None, "TypeError")
        ELSE LET w == WriteText(f, WithLastCommand(r.data, c))
             IN  Outcome(w.file, None, w.exc)

get_last_command(seen, f) ==
    LET r == _load_session_data(seen)
    IN  IF r.exc /= "none" THEN Outcome(f, Nothing, r.exc)
        ELSE IF ~IsDict(r.data) THEN Outcome(f, Nothing, "AttributeError")
        ELSE Outcome(f, r.data.last_command, "none")

WithoutLastCommand_kept(data) == data

\* the dict clear_last_command writes
WithoutLastCommand(data) == [data EXCEPT !.last_command = Nothing]

\* list.pop(key, None) is a TypeError, pop on a scalar an AttributeError
clear_last_command(seen, f) ==
    LET r == _load_session_data(seen)
    IN  IF r.exc /= "none" THEN Outcome(f, None, r.exc)
        ELSE IF ~IsDict(r.data)
        THEN Outcome(f, None,
                     IF r.data.nondict = "list" THEN "TypeError" ELSE "AttributeError")
        ELSE LET w == WriteText(f, WithoutLastCommand(r.data))
             IN  Outcome(w.file, None, w.exc)

----------------
(* Inputs of the session store *)

\* the agent names the handlers save: a configured agent, or None for the default
AgentOpts == {None, W_diet, W_budget}

\* the argument tuples of save_last_command
LastCommandArgs ==
    {[agent_name |-> W_diet, command |-> W_log, message |-> W_pizza,
      agent_path |-> Path(AgentConfig(W_diet).path)],
     [agent_name |-> None, command |-> W_listen, message |-> W_pizza,
      agent_path |-> Path(<<"/", "p">>)]}

NoArgs == [none |-> TRUE]

\* the session-store calls a request handler makes
Calls ==
    {[op |-> "load_current_agent", a |-> None, c |-> NoArgs],
     [op |-> "get_last_command", a |-> None, c |-> NoArgs],
     [op |-> "clear_last_command", a |-> None, c |-> NoArgs]}
    \cup {[op |-> "save_current_agent", a |-> a, c |-> NoArgs] : a \in AgentOpts}
    \cup {[op |-> "save_last_command", a |-> None, c |-> c] : c \in LastCommandArgs}

\* the records the program itself writes, and records holding a foreign key
SessionDicts ==
    [current_agent : AgentOpts \cup {Absent},
     last_command : {LastCommandRecord(c) : c \in LastCommandArgs} \cup {Nothing},
     extra : {Absent, <<"x">>}]

\* what the handlers may find at SESSION_FILE
SessionFiles ==
    {MissingFile, UnreadableFile, UndecodableFile, InvalidFile,
     JsonFile(JList), JsonFile(JNull)}
    \cup {JsonFile(Dumps(d)) : d \in SessionDicts}

\* the requests in flight at once
Requests == {1, 2}

Idle == [st |-> "idle"]
Pending(call, overlap) == [st |-> "pending", call |-> call, overlap |-> overlap]
Reading(r, seen) ==
    [st |-> "reading", call |-> r.call, overlap |-> r.overlap, seen |-> seen]

NoCall == [op |-> "none"]
Unset == <<"unset">>

\* the key of the record a call assigns or removes ("" for a call that only reads)
FieldOf(op) ==
    CASE op = "save_current_agent" -> "current_agent"
      [] op \in {"save_last_command", "clear_last_command"} -> "last_command"
      [] OTHER -> ""

----------------------------------------------------------------------------
(* undo_last (commands.py): the food journal of the current month and      *)
(* notes.md of an agent directory, each a str or no file at all            *)

\* Path.exists() is false
NoFile == <<"no file">>

\* characters str.strip() removes
StripSpace == Whitespace \cup {"\n"}

RECURSIVE LStrip(_)
LStrip(s) ==
    IF s = <<>> THEN s
    ELSE IF Head(s) \in StripSpace THEN LStrip(Tail(s)) ELSE s

RECURSIVE RStrip(_)
RStrip(s) ==
    IF s = <<>> THEN s
    ELSE IF s[Len(s)] \in StripSpace THEN RStrip(SubSeq(s, 1, Len(s) - 1)) ELSE s

\* str.strip()
Strip(s) == RStrip(LStrip(s))

\* str.split("\n"): the pieces between the newlines, [""] for ""
RECURSIVE SplitLinesFrom(_, _, _)
SplitLinesFrom(s, i, cur) ==
    IF i > Len(s) THEN <<cur>>
    ELSE IF s[i] = "\n"
         THEN <<cur>> \o SplitLinesFrom(s, i + 1, <<>>)
         ELSE SplitLinesFrom(s, i + 1, Append(cur, s[i]))

SplitLines(s) == SplitLinesFrom(s, 1, <<>>)

\* an agent directory: food-journal/<this month>.jsonl and notes.md
Dir(journal, notes) == [journal |-> journal, notes |-> notes]

\* what a call of undo_last leaves and returns
Undone(dir, ret) == [dir |-> dir, ret |-> ret]

NoLines_never(lines) == lines = <<>>

\* not lines or lines == [""]
NoLines(lines) == lines = <<>> \/ lines = <<EmptyStr>>

Remaining_all(lines) == lines

\* lines[:-1]
Remaining(lines) == SubSeq(lines, 1, Len(lines) - 1)

_undo_last_food_entry(dir) ==
    IF dir.journal = NoFile THEN Undone(dir, FALSE)
    ELSE LET lines == SplitLines(Strip(dir.journal))
         IN  IF NoLines(lines) THEN Undone(dir, FALSE)
             ELSE IF Remaining(lines) /= <<>>
                  THEN Undone([dir EXCEPT !.journal =
                                   JoinWith(Remaining(lines), <<"\n">>) \o <<"\n">>],
                              TRUE)
                  ELSE Undone([dir EXCEPT !.journal = EmptyStr], TRUE)

\* \d
Digits == {"0", "1", "2", "4"}

\* r"\n## \d{4}-\d{2}-\d{2} \d{2}:\d{2}\n", one pattern item per character
HeaderPattern ==
    <<"\n", "#", "#", " ", "\\d", "\\d", "\\d", "\\d", "-", "\\d", "\\d", "-",
      "\\d", "\\d", " ", "\\d", "\\d", ":", "\\d", "\\d", "\n">>

\* one pattern item matches one character
ItemMatches(item, c) == IF item = "\\d" THEN c \in Digits ELSE c = item

\* the header items match content at i (counted from 1)
HeaderMatchesAt(content, i) ==
    /\ i + Len(HeaderPattern) - 1 <= Len(content)
    /\ \A k \in 1..Len(HeaderPattern) :
           ItemMatches(HeaderPattern[k], content[i + k - 1])

\* [^#]*$ after the header: no "#" up to the end of the str
BodyMatchesFrom(content, j) == \A k \in j..Len(content) : content[k] /= "#"

\* the pattern matches content at i
PatternMatchesAt(content, i) ==
    /\ HeaderMatchesAt(content, i)
    /\ BodyMatchesFrom(content, i + Len(HeaderPattern))

\* re.search(pattern, content): match.start() + 1 of the leftmost match, 0 for None
Search(content) ==
    IF \E i \in 1..Len(content) : PatternMatchesAt(content, i)
    THEN CHOOSE i \in 1..Len(content) :
             /\ PatternMatchesAt(content, i)
             /\ \A k \in 1..(i - 1) : ~PatternMatchesAt(content, k)
    ELSE 0

_undo_last_note(dir) ==
    IF dir.notes = NoFile THEN Undone(dir, FALSE)
    ELSE LET start == Search(dir.notes)
         IN  IF start = 0 THEN Undone(dir, FALSE)
             ELSE Undone([dir EXCEPT !.notes = SubSeq(dir.notes, 1, start - 1)], TRUE)

W_note == <<"n", "o", "t", "e">>

undo_last(command, dir) ==
    IF command = W_log THEN _undo_last_food_entry(dir)
    ELSE IF command \in {W_listen, W_note} THEN _undo_last_note(dir)
    ELSE Undone(dir, FALSE)

----------------------------------------------------------------------------
(* Inputs of undo_last *)

\* PROJECT_DIR and the directory of the agent diet
ProjectDir == <<"/", "p">>
DietDir == AgentConfig(W_diet).path
Dirs == {DietDir, ProjectDir}

EmptyDir == Dir(NoFile, NoFile)

\* journal lines: two JSON records, an empty line, a blank one, a padded record
RecordA == <<"{", "a", "}">>
RecordB == <<"{", "b", " ", "}">>
JournalLines == {RecordA, RecordB, EmptyStr, <<" ">>, <<" ">> \o RecordA}

\* the lines, each ended by a newline
RECURSIVE Terminated(_)
Terminated(lines) ==
    IF lines = <<>> THEN <<>> ELSE Head(lines) \o <<"\n">> \o Terminated(Tail(lines))

LineSeqs == UNION {[1..n -> JournalLines] : n \in 0..MaxLines}

\* the journals: none, newline-terminated lines, the same without the last newline
Journals ==
    {NoFile} \cup {Terminated(ls) : ls \in LineSeqs}
             \cup {JoinWith(ls, <<"\n">>) : ls \in LineSeqs}

\* "## 2024-01-01 10:00\n", the header a note starts with
NoteHeader ==
    <<"#", "#", " ", "2", "0", "2", "4", "-", "0", "1", "-", "0", "1", " ",
      "1", "0", ":", "0", "0", "\n">>

\* blocks of notes.md: the title, an empty line, a line of text, a note, a note
\* whose text holds a "#"
TitleBlock == <<"#", " ", "N", "\n">>
BlankBlock == <<"\n">>
TextBlock == <<"x", "\n">>
NoteBlock == NoteHeader \o <<"y", "\n">>
HashNoteBlock == NoteHeader \o <<"#", "3", "\n">>
NotesBlocks == {TitleBlock, BlankBlock, TextBlock, NoteBlock, HashNoteBlock}

RECURSIVE Concat(_)
Concat(blocks) == IF blocks = <<>> THEN <<>> ELSE Head(blocks) \o Concat(Tail(blocks))

BlockSeqs == UNION {[1..n -> NotesBlocks] : n \in 0..MaxBlocks}

NotesDocs == {NoFile} \cup {Concat(bs) : bs \in BlockSeqs}

\* a journal and a notes document for the calls that are about the other file
SomeJournal == Terminated(<<RecordA, RecordB>>)
SomeNotes == Concat(<<TitleBlock, NoteBlock>>)

\* command names passed to undo_last: the three it knows and one it does not
UndoCommands == {W_log, W_listen, W_note, W_undo}

----------------
(* Specification SpecExtract: one call of a routing function *)

RouteIdle ==
    /\ fn = "none"
    /\ text = EmptyStr
    /\ raw = NoConfigFile
    /\ config = CfgEmpty
    /\ window_size = DefaultWindowSize
    /\ command_name = None
    /\ agent_name = None
    /\ result = Nothing
    /\ pc = "idle"

SessionIdle ==
    /\ file = MissingFile
    /\ req = [p \in Requests |-> Idle]
    /\ lastCall = NoCall
    /\ lastSaved = Unset

UndoIdle ==
    /\ fs = [d \in Dirs |-> EmptyDir]
    /\ undo = [st |-> "idle"]
    /\ exec = [st |-> "idle"]

VoiceIdle ==
    /\ voice = [pc |-> "off"]
    /\ calls = <<>>
    /\ chat = [pc |-> "off"]
    /\ ask = [pc |-> "off"]
    /\ stream = [pc |-> "off"]

\* the command names a caller asks for: two configured, an alias, an unknown one
CommandNames == {W_log, W_listen, W_add, W_undo}

InitExtract ==
    /\ SessionIdle
    /\ UndoIdle
    /\ VoiceIdle
    /\ result = Nothing
    /\ pc = "call"
    /\ \/ /\ fn = "extract_keywords_from_window"
          /\ \/ /\ raw \in RawConfigs
                /\ \E ws \in WordSeqs, st \in Styles : text = Render(ws, st)
             \/ /\ raw \in HyphenRawConfigs
                /\ \E ws \in HyphenWordSeqs : text = Render(ws, "plain")
          /\ config = load_agents_config(raw)
          /\ window_size \in WindowSizes
          /\ command_name = None
          /\ agent_name = None
       \/ /\ fn = "get_command_for_agent"
          /\ raw \in RawConfigs
          /\ config = load_agents_config(raw)
          /\ text = EmptyStr
          /\ window_size = DefaultWindowSize
          /\ command_name \in CommandNames
          /\ agent_name \in AgentOpts
       \/ /\ fn = "load_agents_config"
          /\ raw \in RawConfigs \cup HyphenRawConfigs
          /\ config = CfgEmpty
          /\ text = EmptyStr
          /\ window_size = DefaultWindowSize
          /\ command_name = None
          /\ agent_name = None

Extract ==
    /\ pc = "call"
    /\ fn = "extract_keywords_from_window"
    /\ result' = extract_keywords_from_window(text, config, window_size)
    /\ pc' = "done"
    /\ UNCHANGED <<fn, text, raw, config, window_size, command_name, agent_name>>
    /\ UNCHANGED sessionVars
    /\ UNCHANGED undoVars
    /\ UNCHANGED voiceVars

Resolve ==
    /\ pc = "call"
    /\ fn = "get_command_for_agent"
    /\ result' = get_command_for_agent(command_name, agent_name, config)
    /\ pc' = "done"
    /\ UNCHANGED <<fn, text, raw, config, window_size, command_name, agent_name>>
    /\ UNCHANGED sessionVars
    /\ UNCHANGED undoVars
    /\ UNCHANGED voiceVars

\* CONFIG = load_agents_config()
LoadAgentsConfig ==
    /\ pc = "call"
    /\ fn = "load_agents_config"
    /\ config' = load_agents_config(raw)
    /\ result' = Nothing
    /\ pc' = "done"
    /\ UNCHANGED <<fn, text, raw, window_size, command_name, agent_name>>
    /\ UNCHANGED sessionVars
    /\ UNCHANGED undoVars
    /\ UNCHANGED voiceVars

NextExtract == Extract \/ Resolve \/ LoadAgentsConfig

SpecExtract == InitExtract /\ [][NextExtract]_vars

----------------------------------------------------------------------------
(* Specification Spec: the handlers' calls of the session store.  The      *)
(* handlers are coroutines of one event loop: a coroutine keeps the loop   *)
(* until it awaits, and the session functions await nothing between their *)
(* read and their write.  Requests interleave between calls.               *)

AwaitInsideCall_present == TRUE

\* whether a session function gives the loop away between its read and its write
AwaitInsideCall == FALSE

\* the event loop can run request p: no other request is inside a call
LoopFree(p) ==
    AwaitInsideCall \/ \A q \in Requests \ {p} : req[q].st /= "reading"

Init ==
    /\ RouteIdle
    /\ UndoIdle
    /\ VoiceIdle
    /\ file \in SessionFiles
    /\ req = [p \in Requests |-> Idle]
    /\ lastCall = NoCall
    /\ lastSaved = Unset

\* a handler reaches a session-store call
Arrive(p) ==
    /\ req[p].st = "idle"
    /\ LoopFree(p)
    /\ \E call \in Calls :
           req' = [req EXCEPT ![p] =
                       Pending(call, \E q \in Requests \ {p} :
                                         req[q].st \in {"pending", "reading"})]
    /\ UNCHANGED <<file, lastCall, lastSaved>>
    /\ UNCHANGED routeVars
    /\ UNCHANGED undoVars
    /\ UNCHANGED voiceVars

\* the call starts: it reads the session file
ReadSession(p) ==
    /\ req[p].st = "pending"
    /\ LoopFree(p)
    /\ req' = [req EXCEPT ![p] = Reading(req[p], file)]
    /\ UNCHANGED <<file, lastCall, lastSaved>>
    /\ UNCHANGED routeVars
    /\ UNCHANGED undoVars
    /\ UNCHANGED voiceVars

\* the requests' records once p's call ended: a write of a key supersedes the
\* other requests' earlier writes of the same key
Completed(p, call, out) ==
    [q \in Requests |->
        IF q = p
        THEN [st |-> "done", call |-> call, overlap |-> req[p].overlap,
              exc |-> out.exc, live |-> TRUE]
        ELSE IF /\ req[q].st = "done"
                /\ out.exc = "none"
                /\ FieldOf(call.op) /= ""
                /\ FieldOf(req[q].call.op) = FieldOf(call.op)
             THEN [req[q] EXCEPT !.live = FALSE]
             ELSE req[q]]

Record(call, seen, out) ==
    [op |-> call.op, a |-> call.a, c |-> call.c, before |-> seen,
     ret |-> out.ret, exc |-> out.exc]

\* the call ends: it returns or raises, having written the file if it saves
RunCall(p, op, out) ==
    /\ req[p].st = "reading"
    /\ req[p].call.op = op
    /\ file' = out.file
    /\ req' = Completed(p, req[p].call, out)
    /\ lastCall' = Record(req[p].call, req[p].seen, out)
    /\ lastSaved' = IF op = "save_current_agent" /\ out.exc = "none"
                    THEN req[p].call.a ELSE lastSaved
    /\ UNCHANGED routeVars
    /\ UNCHANGED undoVars
    /\ UNCHANGED voiceVars

LoadCurrentAgent(p) ==
    RunCall(p, "load_current_agent", load_current_agent(req[p].seen, file))

SaveCurrentAgent(p) ==
    RunCall(p, "save_current_agent",
            save_current_agent(req[p].seen, file, req[p].call.a))

SaveLastCommand(p) ==
    RunCall(p, "save_last_command",
            save_last_command(req[p].seen, file, req[p].call.c))

GetLastCommand(p) ==
    RunCall(p, "get_last_command", get_last_command(req[p].seen, file))

ClearLastCommand(p) ==
    RunCall(p, "clear_last_command", clear_last_command(req[p].seen, file))

\* the handler goes on after its call
Finish(p) ==
    /\ req[p].st = "done"
    /\ LoopFree(p)
    /\ req' = [req EXCEPT ![p] = Idle]
    /\ UNCHANGED <<file, lastCall, lastSaved>>
    /\ UNCHANGED routeVars
    /\ UNCHANGED undoVars
    /\ UNCHANGED voiceVars

Next ==
    \E p \in Requests :
        \/ Arrive(p)
        \/ ReadSession(p)
        \/ LoadCurrentAgent(p)
        \/ SaveCurrentAgent(p)
        \/ SaveLastCommand(p)
        \/ GetLastCommand(p)
        \/ ClearLastCommand(p)
        \/ Finish(p)

Spec == Init /\ [][Next]_vars

----------------------------------------------------------------------------
(* Specification SpecVoice: process_voice (main.py) serving one voice      *)
(* request after the other.  Two statements of the handler raise whenever  *)
(* they run.  `agent_voice = agent_config.voice` (l.350, l.501) reads an   *)
(* attribute that AgentConfig (agents.py l.30-36) does not have: an        *)
(* AttributeError for every configured agent.  `synthesize(..., voice=...)`*)
(* (l.410, l.447, l.539) passes a keyword that tts.synthesize(text) (tts.py*)
(* l.88) does not take: a TypeError at the call, before anything is        *)
(* awaited.  So from the transcription to the response the handler is never*)
(* suspended.  What the command prompts make the CLI write is not part of  *)
(* the repository and not modelled.                                        *)

W_repeat == <<"r", "e", "p", "e", "a", "t">>
W_research == <<"r", "e", "s", "e", "a", "r", "c", "h">>

\* CONFIG: the tests' agents; log (diet only, silent, alias add), listen
\* (universal, silent), note (universal, spoken), undo, repeat, research
RawVoice ==
    [agents |-> RawDiet.agents,
     commands |-> <<RawCommand(W_log, Some(<<W_diet>>), Some(TRUE), Some(<<W_add>>)),
                    RawCommand(W_listen, Missing, Some(TRUE), Missing),
                    RawCommand(W_note, Missing, Missing, Missing),
                    RawCommand(W_undo, Missing, Missing, Missing),
                    RawCommand(W_repeat, Missing, Missing, Missing),
                    RawCommand(W_research, Missing, Missing, Missing)>>]

CfgVoice == load_agents_config(RawVoice)

\* the transcriptions
VoiceTexts ==
    {<<>>,
     <<W_pizza>>,
     <<W_diet, W_agent>>,
     <<W_diet, W_agent, W_log>>,
     <<W_diet, W_agent, W_log, W_pizza>>,
     <<W_budget, W_agent, W_log, W_pizza>>,
     <<W_agent, W_log, W_pizza>>,
     <<W_agent, W_listen, W_pizza>>,
     <<W_agent, W_note, W_pizza>>,
     <<W_agent, W_undo>>,
     <<W_agent, W_repeat>>,
     <<W_agent, W_research, W_pizza>>}

\* SESSION_FILE when the first request arrives
VoiceFiles ==
    {MissingFile, JsonFile(JList)}
    \cup {JsonFile(Dumps(d)) :
              d \in [current_agent : {Absent, W_diet, W_budget},
                     last_command : {LastCommandRecord(c) : c \in LastCommandArgs}
                                        \cup {Nothing},
                     extra : {Absent}]}

\* the agent directories when the first request arrives
VoiceDirs ==
    {[d \in Dirs |-> EmptyDir],
     [d \in Dirs |-> IF d = DietDir THEN Dir(SomeJournal, NoFile)
                     ELSE Dir(NoFile, SomeNotes)]}

\* current_agent_name and current_agent_name in CONFIG.agents
Configured(cfg, name) ==
    Truthy(name) /\ \E i \in 1..Len(cfg.agents) : cfg.agents[i].name = name

\* CONFIG.agents[name].path when name is a configured agent, else PROJECT_DIR
Cwd(cfg, name) ==
    IF Configured(cfg, name)
    THEN cfg.agents[CHOOSE i \in 1..Len(cfg.agents) : cfg.agents[i].name = name].path
    ELSE ProjectDir

\* one call the handler makes outside the session store
Call(f, command, message, path, ret) ==
    [f |-> f, command |-> command, message |-> message, path |-> path, ret |-> ret]

W_default == <<"d", "e", "f", "a", "u", "l", "t">>
W_voice_agent == <<"v", "o", "i", "c", "e", "-", "a", "g", "e", "n", "t">>

\* CONVERSATIONS_ROOT / agent_name, "voice-agent" for the default agent
get_conversations_dir(name) ==
    ProjectDir \o <<"/", "c", "/">> \o (IF name = None THEN W_voice_agent ELSE name)

\* the calls after log_conversation(user_text, ..., conversations_dir)
WithLog(c, v) ==
    Append(c, Call("log_conversation", None, v.user_text,
                   get_conversations_dir(v.current_agent_name), TRUE))

\* the handler between two requests
Waiting(n, prev) ==
    [pc |-> "idle", n |-> n, text |-> EmptyStr, user_text |-> EmptyStr,
     current_agent_name |-> None, command_name |-> None, message |-> EmptyStr,
     cwd |-> ProjectDir, cmd_config |-> Nothing,
     success |-> FALSE, error_sound |-> FALSE, chime |-> FALSE,
     response |-> "none", exc |-> "none", start |-> file, fs0 |-> fs, prev |-> prev]

\* return Response(...)
Responded(v, kind) == [v EXCEPT !.pc = "done", !.response = kind]

\* except Exception: the error sound, or HTTPException(500) without one
Raised(v, exc) ==
    [v EXCEPT !.pc = "done", !.exc = exc,
              !.response = IF v.error_sound THEN "error_sound" ELSE "http_error"]

\* get_error_sound(...) gave a sound or None
Heard(v, error_sound) == [v EXCEPT !.error_sound = error_sound]

\* get_success_chime(...) gave a chime or None
Chimed(v, chime) == [v EXCEPT !.chime = chime]

\* the files of an agent directory (none under a path the model does not hold)
DirAt(path) == IF path \in Dirs THEN fs[path] ELSE EmptyDir

WithDir(path, dir) == IF path \in Dirs THEN [fs EXCEPT ![path] = dir] ELSE fs

\* what one step of the handler leaves
Step(v, f, d, c) ==
    /\ voice' = v
    /\ file' = f
    /\ fs' = d
    /\ calls' = c
    /\ UNCHANGED <<req, lastCall, lastSaved, undo, exec, chat, ask, stream>>
    /\ UNCHANGED routeVars

\* no chat request is being served
ChatIdle ==
    [pc |-> "idle", current_agent_name |-> None, cwd |-> ProjectDir,
     conversations_dir |-> get_conversations_dir(None), exc |-> "none"]

InitVoice ==
    /\ fn = "none"
    /\ text = EmptyStr
    /\ raw = RawVoice
    /\ config = CfgVoice
    /\ window_size = DefaultWindowSize
    /\ command_name = None
    /\ agent_name = None
    /\ result = Nothing
    /\ pc = "idle"
    /\ file \in VoiceFiles
    /\ req = [p \in Requests |-> Idle]
    /\ lastCall = NoCall
    /\ lastSaved = Unset
    /\ fs \in VoiceDirs
    /\ undo = [st |-> "idle"]
    /\ exec = [st |-> "idle"]
    /\ voice = Waiting(0, [command_name |-> None, response |-> "none",
                            exc |-> "none"])
    /\ calls = <<>>
    /\ chat = ChatIdle
    /\ ask = [pc |-> "off"]
    /\ stream = [pc |-> "off"]

\* a recording arrives and is transcribed
Receive ==
    /\ voice.pc \in {"idle", "done"}
    /\ voice.n < MaxVoiceRequests
    /\ \E ws \in VoiceTexts :
           Step([Waiting(voice.n + 1, [command_name |-> voice.command_name,
                                       response |-> voice.response,
                                       exc |-> voice.exc])
                     EXCEPT !.pc = "transcribed",
                            !.text = Render(ws, "plain"),
                            !.user_text = Render(ws, "plain")],
                file, fs, <<>>)

KeywordMode_always(extraction) == TRUE

\* if extraction["has_agent_keyword"]:
KeywordMode(extraction) == extraction.has_agent_keyword

\* empty transcription; load_current_agent; extraction; agent switch; the
\* agent's path and voice (AttributeError), or PROJECT_DIR
Route ==
    /\ voice.pc = "transcribed"
    /\ \E error_sound \in BOOLEAN :
        LET lc == load_current_agent(file, file)
            extraction == extract_keywords_from_window(voice.user_text, config,
                                                       DefaultWindowSize)
            new_agent_name == extraction.agent_name
            sv == IF new_agent_name /= lc.ret
                  THEN save_current_agent(file, file, new_agent_name)
                  ELSE Outcome(file, None, "none")
            v == Heard(voice, error_sound)
        IN  IF Strip(voice.user_text) = EmptyStr
            THEN Step(IF error_sound THEN Responded(v, "error_sound")
                      ELSE Raised(v, "HTTPException"),
                      file, fs, calls)
            ELSE IF lc.exc /= "none"
            THEN Step(Raised(v, lc.exc), file, fs, calls)
            ELSE IF ~KeywordMode(extraction)
            THEN Step([voice EXCEPT !.pc = "claude",
                                    !.current_agent_name = lc.ret],
                      file, fs, calls)
            ELSE IF sv.exc /= "none"
            THEN Step(Raised(v, sv.exc), sv.file, fs, calls)
            ELSE IF Configured(config, new_agent_name)
            THEN Step(Raised([v EXCEPT !.current_agent_name = new_agent_name],
                             "AttributeError"),
                      sv.file, fs, calls)
            ELSE Step([voice EXCEPT
                           !.pc = IF Truthy(extraction.command)
                                  THEN "command" ELSE "claude",
                           !.current_agent_name = new_agent_name,
                           !.command_name = extraction.command,
                           !.message = extraction.message,
                           !.cwd = ProjectDir,
                           !.user_text = IF Truthy(extraction.command) THEN @
                                         ELSE IF extraction.message /= EmptyStr
                                         THEN extraction.message ELSE @],
                      sv.file, fs, calls)

\* get_command_for_agent; the error sound for a command the agent lacks
CheckCommand ==
    /\ voice.pc = "command"
    /\ \E error_sound \in BOOLEAN :
        LET cmd_config == get_command_for_agent(voice.command_name,
                                                voice.current_agent_name, config)
        IN  IF cmd_config = Nothing
            THEN Step(IF error_sound
                      THEN Responded(Heard(voice, error_sound), "error_sound")
                      ELSE [Heard(voice, error_sound) EXCEPT !.pc = "dispatch"],
                      file, fs, calls)
            ELSE Step([voice EXCEPT !.pc = "dispatch", !.cmd_config = cmd_config],
                      file, fs, calls)

\* the chime that ends an undo, or on to the LLM without one
AfterUndo(v) == IF v.chime THEN Responded(v, "chime") ELSE [v EXCEPT !.pc = "claude"]

\* command_name == "undo"
Undo ==
    /\ voice.pc = "dispatch"
    /\ voice.command_name = W_undo
    /\ \E chime \in BOOLEAN, error_sound \in BOOLEAN :
        LET last == get_last_command(file, file)
            v == Chimed(voice, chime)
        IN  IF last.exc /= "none"
            THEN Step(Raised(Heard(voice, error_sound), last.exc), file, fs, calls)
            ELSE IF last.ret = Nothing
            THEN Step(AfterUndo(v), file, fs,
                      IF chime THEN WithLog(calls, voice) ELSE calls)
            ELSE LET path == last.ret.agent_path
                     undone == undo_last(last.ret.command, DirAt(path))
                     cleared == clear_last_command(file, file)
                     made == Append(calls, Call("undo_last", last.ret.command, None,
                                                path, undone.ret))
                 IN  IF cleared.exc /= "none"
                     THEN Step(Raised(Heard(voice, error_sound), cleared.exc),
                               cleared.file, WithDir(path, undone.dir), made)
                     ELSE Step(AfterUndo(v), cleared.file,
                               WithDir(path, undone.dir),
                               IF chime THEN WithLog(made, voice) ELSE made)

\* command_name == "repeat": the last "**Agent:**" entry of today's
\* conversation log is to be spoken again (TypeError); without one the error
\* sound, or on to the LLM when there is no sound
Repeat ==
    /\ voice.pc = "dispatch"
    /\ voice.command_name = W_repeat
    /\ \E last_agent_response \in BOOLEAN, error_sound \in BOOLEAN :
           Step(IF last_agent_response
                THEN Raised(Heard(voice, error_sound), "TypeError")
                ELSE IF error_sound
                THEN Responded(Heard(voice, error_sound), "error_sound")
                ELSE [Heard(voice, error_sound) EXCEPT !.pc = "claude"],
                file, fs, calls)

\* command_name == "research": spawn_research, then the confirmation is to be
\* spoken (TypeError)
Research ==
    /\ voice.pc = "dispatch"
    /\ voice.command_name = W_research
    /\ \E error_sound \in BOOLEAN :
           Step(Raised(Heard(voice, error_sound), "TypeError"), file, fs,
                Append(calls, Call("spawn_research", voice.command_name,
                                   voice.message, voice.cwd, TRUE)))

\* the commands main.py handles itself
BuiltIns == {W_undo, W_repeat, W_research}

\* a regular command (log, listen, ...): execute_command, save_last_command
RegularCommand ==
    /\ voice.pc = "dispatch"
    /\ voice.command_name \notin BuiltIns
    /\ \E success \in BOOLEAN, chime \in BOOLEAN, error_sound \in BOOLEAN :
        LET made == Append(calls, Call("execute_command", voice.command_name,
                                       voice.message, voice.cwd, success))
            saved == save_last_command(file, file,
                         [agent_name |-> voice.current_agent_name,
                          command |-> voice.command_name,
                          message |-> voice.message,
                          agent_path |-> Path(voice.cwd)])
            v == [voice EXCEPT !.success = success]
        IN  IF Strip(voice.message) = EmptyStr /\ error_sound
            THEN Step(Responded(Heard(voice, error_sound), "error_sound"),
                      file, fs, calls)
            ELSE IF success /\ voice.cmd_config /= Nothing
                    /\ voice.cmd_config.silent
            THEN IF saved.exc /= "none"
                 THEN Step(Raised(v, saved.exc), saved.file, fs, made)
                 ELSE Step(Responded(Chimed(v, chime),
                                     IF chime THEN "chime" ELSE "empty"),
                           saved.file, fs, WithLog(made, voice))
            ELSE Step([v EXCEPT !.pc = "claude", !.user_text = voice.message],
                      file, fs, made)

\* the active agent's path and voice (AttributeError for a configured agent),
\* else PROJECT_DIR; ask_claude, or the canned answer for an empty text; then
\* synthesize(speech_text, voice=agent_voice): the TypeError is caught at l.540
\* and answered with the tts_failed sound, or raised again to l.558
AskClaude ==
    /\ voice.pc = "claude"
    /\ \E error_sound \in BOOLEAN :
           IF Configured(config, voice.current_agent_name)
           THEN Step(Raised(Heard(voice, error_sound), "AttributeError"),
                     file, fs, calls)
           ELSE Step(Raised(Heard([voice EXCEPT !.cwd = ProjectDir], error_sound),
                            "TypeError"),
                     file, fs,
                     IF Strip(voice.user_text) = EmptyStr THEN calls
                     ELSE Append(calls, Call("ask_claude", None, voice.user_text,
                                             ProjectDir, TRUE)))

\* POST /api/agents/switch, served while no voice request runs: 400 for an
\* unknown agent, else save_current_agent
SwitchAgentTo(agent) ==
    /\ voice.pc \in {"idle", "done"}
    /\ LET saved == save_current_agent(file, file,
                        IF agent = W_default THEN None ELSE agent)
       IN  IF agent /= W_default
              /\ ~\E i \in 1..Len(config.agents) : config.agents[i].name = agent
           THEN Step(voice, file, fs, calls)
           ELSE Step(voice, saved.file, fs, calls)

SwitchRequests == {W_default, W_diet, W_budget, W_pizza}

SwitchAgent == \E agent \in SwitchRequests : SwitchAgentTo(agent)

NextVoice ==
    \/ Receive
    \/ Route
    \/ CheckCommand
    \/ Undo
    \/ Repeat
    \/ Research
    \/ RegularCommand
    \/ AskClaude
    \/ SwitchAgent

SpecVoice == InitVoice /\ [][NextVoice]_vars

----------------------------------------------------------------------------
(* Specification SpecChat: chat and chat_audio (main.py), which stream the *)
(* LLM's answer.  The handler reads the current agent and returns the      *)
(* streaming response; the generator then runs stream_claude, suspended    *)
(* between the events, while other requests are served.                    *)

\* load_current_agent, cwd and conversations_dir; return StreamingResponse
Chat ==
    /\ voice.pc = "idle"
    /\ chat.pc \in {"idle", "done"}
    /\ LET lc == load_current_agent(file, file)
       IN  chat' = IF lc.exc /= "none"
                   THEN [ChatIdle EXCEPT !.pc = "done", !.exc = lc.exc]
                   ELSE [ChatIdle EXCEPT
                             !.pc = "streaming",
                             !.current_agent_name = lc.ret,
                             !.cwd = Cwd(config, lc.ret),
                             !.conversations_dir = get_conversations_dir(lc.ret)]
    /\ UNCHANGED <<voice, calls, ask, stream>>
    /\ UNCHANGED <<routeVars, sessionVars, undoVars>>

\* generate_events: stream_claude(message, cwd=cwd, conversations_dir=...) runs
\* the CLI in cwd and saves the conversation id under conversations_dir; at
\* the "done" event log_conversation(..., conversations_dir)
ChatStream ==
    /\ chat.pc = "streaming"
    /\ chat' = [chat EXCEPT !.pc = "done"]
    /\ UNCHANGED <<voice, calls, ask, stream>>
    /\ UNCHANGED <<routeVars, sessionVars, undoVars>>

NextChat == Chat \/ ChatStream \/ SwitchAgent

SpecChat == InitVoice /\ [][NextChat]_vars

----------------------------------------------------------------------------
(* Specification SpecUndo: a caller invokes undo_last on one agent         *)
(* directory, up to MaxUndoCalls times in a row                            *)

InitUndo ==
    /\ RouteIdle
    /\ SessionIdle
    /\ VoiceIdle
    /\ exec = [st |-> "idle"]
    /\ \E command \in UndoCommands, agent_path \in Dirs,
          journal \in Journals, notes \in NotesDocs :
           /\ \/ command = W_log /\ notes \in {NoFile, SomeNotes}
              \/ command = W_listen /\ journal \in {NoFile, SomeJournal}
              \/ command = W_note /\ journal = NoFile
              \/ /\ command = W_undo
                 /\ journal \in {NoFile, EmptyStr, SomeJournal}
                 /\ notes \in {NoFile, SomeNotes}
           /\ fs = [d \in Dirs |-> IF d = agent_path THEN Dir(journal, notes)
                                   ELSE EmptyDir]
           /\ undo = [st |-> "call", command |-> command, agent_path |-> agent_path,
                      rets |-> <<>>, before |-> Dir(journal, notes)]

\* one call undo_last(command, agent_path)
CallUndo(out) ==
    /\ undo.st = "call"
    /\ Len(undo.rets) < MaxUndoCalls
    /\ fs' = [fs EXCEPT ![undo.agent_path] = out.dir]
    /\ undo' = [undo EXCEPT !.rets = Append(@, out.ret),
                            !.before = fs[undo.agent_path]]
    /\ UNCHANGED exec
    /\ UNCHANGED routeVars
    /\ UNCHANGED sessionVars
    /\ UNCHANGED voiceVars

UndoFood ==
    /\ undo.st = "call"
    /\ undo.command = W_log
    /\ CallUndo(undo_last(undo.command, fs[undo.agent_path]))

UndoNote ==
    /\ undo.st = "call"
    /\ undo.command \in {W_listen, W_note}
    /\ CallUndo(undo_last(undo.command, fs[undo.agent_path]))

UndoUnknown ==
    /\ undo.st = "call"
    /\ undo.command \notin {W_log, W_listen, W_note}
    /\ CallUndo(undo_last(undo.command, fs[undo.agent_path]))

NextUndo == UndoFood \/ UndoNote \/ UndoUnknown

SpecUndo == InitUndo /\ [][NextUndo]_vars

----------------------------------------------------------------------------
(* Specification SpecExec: execute_command (commands.py) called once on    *)
(* the prompt files and the CLI behaviour it may meet.                     *)

\* a prompt file: absent, text, bytes that do not decode, or a directory
BadBytes == <<"bad bytes">>
NotAFile == <<"directory">>
Prompt == <<"L", "o", "g">>
PromptFiles == {NoFile, EmptyStr, Prompt, BadBytes, NotAFile}

\* subprocess.run: exit code 0, another exit code, TimeoutExpired, OSError
CliOutcomes == {"exit0", "exit1", "timeout", "oserror"}

\* Path.read_text()
ReadText(f) ==
    IF f = BadBytes THEN [ret |-> None, exc |-> "UnicodeDecodeError"]
    ELSE IF f = NotAFile THEN [ret |-> None, exc |-> "IsADirectoryError"]
    ELSE [ret |-> f, exc |-> "none"]

\* the agent's voice-commands/{command}.md, else the global one, else None
load_command_prompt(agent_cmd_file, global_cmd_file) ==
    IF agent_cmd_file /= NoFile THEN ReadText(agent_cmd_file)
    ELSE IF global_cmd_file /= NoFile THEN ReadText(global_cmd_file)
    ELSE [ret |-> None, exc |-> "none"]

\* what a call of execute_command gives: its value or its exception, and the
\* CLI invocation it made
Returned(ret, exc, invoked) == [ret |-> ret, exc |-> exc, invoked |-> invoked]

\* result.returncode == 0, and no exception from subprocess.run
Succeeded(cli) == cli = "exit0"

execute_command(message, agent_path, agent_cmd_file, global_cmd_file, cli) ==
    LET command_prompt == load_command_prompt(agent_cmd_file, global_cmd_file)
    IN  IF command_prompt.exc /= "none"
        THEN Returned(FALSE, command_prompt.exc, <<>>)
        ELSE IF command_prompt.ret = None
        THEN Returned(FALSE, "none", <<>>)
        ELSE Returned(Succeeded(cli), "none",
                      <<[prompt |-> command_prompt.ret, input |-> message,
                         cwd |-> agent_path]>>)

InitExec ==
    /\ RouteIdle
    /\ SessionIdle
    /\ VoiceIdle
    /\ fs = [d \in Dirs |-> EmptyDir]
    /\ undo = [st |-> "idle"]
    /\ \E command \in {W_log, W_listen}, message \in {EmptyStr, W_pizza},
          agent_path \in Dirs, agent_cmd_file \in PromptFiles,
          global_cmd_file \in PromptFiles, cli \in CliOutcomes :
           exec = [st |-> "call", command |-> command, message |-> message,
                   agent_path |-> agent_path, agent_cmd_file |-> agent_cmd_file,
                   global_cmd_file |-> global_cmd_file, cli |-> cli,
                   out |-> Returned(FALSE, "none", <<>>)]

ExecuteCommand ==
    /\ exec.st = "call"
    /\ exec' = [exec EXCEPT
                    !.st = "done",
                    !.out = execute_command(exec.message, exec.agent_path,
                                            exec.agent_cmd_file,
                                            exec.global_cmd_file, exec.cli)]
    /\ UNCHANGED <<fs, undo>>
    /\ UNCHANGED routeVars
    /\ UNCHANGED sessionVars
    /\ UNCHANGED voiceVars

NextExec == ExecuteCommand

SpecExec == InitExec /\ [][NextExec]_vars

----------------------------------------------------------------------------
(* Specification SpecAsk: one call of ask_claude (claude.py) on what the   *)
(* conversation's .claude-session.json holds and on what the CLI does at  *)
(* each invocation.  The call is followed statement by statement.         *)

\* conversation ids: the one stored, the one the CLI reports
Id1 == <<"c", "1">>
Id2 == <<"c", "2">>

\* datetime.now().strftime("%Y-%m-%d") and an earlier day
Today == <<"today">>
Yesterday == <<"yesterday">>

\* .claude-session.json: absent, not JSON, JSON that is no object, or an object
\* with a date and a conversation id
ConvSession(date, conversation_id) ==
    [kind |-> "object", date |-> date, conversation_id |-> conversation_id]
NoSession == [kind |-> "missing", date |-> None, conversation_id |-> None]
BadJson == [kind |-> "bad json", date |-> None, conversation_id |-> None]
NotADict == [kind |-> "not a dict", date |-> None, conversation_id |-> None]
ConvFiles ==
    {NoSession, BadJson, NotADict}
        \cup {ConvSession(d, i) : d \in {Today, Yesterday}, i \in {None, EmptyStr, Id1}}

\* get_conversation_id(conversations_dir) on the content of the session file
get_conversation_id(f) ==
    IF f = NoSession THEN [ret |-> None, exc |-> "none"]
    ELSE IF f = BadJson THEN [ret |-> None, exc |-> "none"]
    ELSE IF f = NotADict THEN [ret |-> None, exc |-> "AttributeError"]
    ELSE IF f.date = Today THEN [ret |-> f.conversation_id, exc |-> "none"]
    ELSE [ret |-> None, exc |-> "none"]

\* save_conversation_id(conversation_id, usage, conversations_dir)
save_conversation_id(conversation_id) == ConvSession(Today, conversation_id)

\* clear_conversation(conversations_dir)
clear_conversation(f) == NoSession

\* the command line: the fixed arguments, then the optional ones
Cmd(voice_mode_prompt, context_dir_exists, resume) ==
    [append_system_prompt |-> voice_mode_prompt,
     add_dir |-> context_dir_exists,
     resume |-> resume]

\* what subprocess.run gives: a CompletedProcess with its return code and the
\* session_id of its stdout, or an exception
CompletedProcess(returncode, session_id) ==
    [returncode |-> returncode, session_id |-> session_id, exc |-> "none"]
RunRaised(exc) == [returncode |-> -1, session_id |-> None, exc |-> exc]
RunOutcomes ==
    {CompletedProcess(0, None), CompletedProcess(0, Id2), CompletedProcess(1, None), CompletedProcess(1, Id2),
     RunRaised("TimeoutExpired"), RunRaised("FileNotFoundError")}

\* parse_claude_output(result.stdout)[2]
parse_claude_output(r) == r.session_id

\* the exception ask_claude leaves with when subprocess.run raised
AskRaises(exc) == IF exc = "TimeoutExpired" THEN "RuntimeError" ELSE exc

\* the retry test: result.returncode != 0 and conversation_id
Retry_always(r, conversation_id) == r.returncode /= 0

Retry(r, conversation_id) == r.returncode /= 0 /\ Truthy(conversation_id)

InitAsk ==
    /\ RouteIdle
    /\ SessionIdle
    /\ UndoIdle
    /\ voice = [pc |-> "off"]
    /\ calls = <<>>
    /\ chat = [pc |-> "off"]
    /\ stream = [pc |-> "off"]
    /\ \E f \in ConvFiles, voice_mode_prompt \in {EmptyStr, Prompt},
          context_dir_exists \in BOOLEAN :
           ask = [pc |-> "load", session |-> f,
                  voice_mode_prompt |-> voice_mode_prompt,
                  context_dir_exists |-> context_dir_exists,
                  conversation_id |-> None, invoked |-> <<>>,
                  result |-> CompletedProcess(0, None), saved |-> <<>>,
                  exc |-> "none"]

\* what an action of ask_claude leaves
AskStep(a) ==
    /\ ask' = a
    /\ UNCHANGED <<voice, calls, chat, stream>>
    /\ UNCHANGED <<routeVars, sessionVars, undoVars>>

\* one subprocess.run(cmd, ...): the invocation is recorded with the session
\* file as it is at that time and with what it gave
Invoke(cmd, r, next) ==
    AskStep([ask EXCEPT
                 !.invoked = Append(@, [cmd |-> cmd, session |-> ask.session,
                                       result |-> r]),
                 !.result = r,
                 !.exc = AskRaises(r.exc),
                 !.pc = IF r.exc /= "none" THEN "raised" ELSE next])

\* conversation_id = get_conversation_id(conversations_dir)
AskLoad ==
    /\ ask.pc = "load"
    /\ LET got == get_conversation_id(ask.session)
       IN  AskStep([ask EXCEPT !.conversation_id = got.ret,
                               !.exc = got.exc,
                               !.pc = IF got.exc /= "none" THEN "raised" ELSE "run"])

\* the first subprocess.run, with --resume when an id was loaded
AskRun ==
    /\ ask.pc = "run"
    /\ \E r \in RunOutcomes :
           Invoke(Cmd(ask.voice_mode_prompt, ask.context_dir_exists,
                      IF Truthy(ask.conversation_id) THEN ask.conversation_id
                      ELSE None),
                  r, "ran")

\* if result.returncode != 0 and conversation_id: clear_conversation
AskClear ==
    /\ ask.pc = "ran"
    /\ AskStep(IF Retry(ask.result, ask.conversation_id)
               THEN [ask EXCEPT !.session = clear_conversation(@), !.pc = "rerun"]
               ELSE [ask EXCEPT !.pc = "check"])

\* the second subprocess.run, the command line rebuilt without --resume
AskRerun ==
    /\ ask.pc = "rerun"
    /\ \E r \in RunOutcomes :
           Invoke(Cmd(ask.voice_mode_prompt, ask.context_dir_exists, None),
                  r, "check")

\* raise RuntimeError on a non-zero return code; else parse, save and return
AskFinish ==
    /\ ask.pc = "check"
    /\ AskStep(IF ask.result.returncode /= 0
               THEN [ask EXCEPT !.pc = "raised", !.exc = "RuntimeError"]
               ELSE LET new_conversation_id == parse_claude_output(ask.result)
                    IN  IF Truthy(new_conversation_id)
                        THEN [ask EXCEPT
                                  !.session = save_conversation_id(new_conversation_id),
                                  !.saved = Append(@, [id |-> new_conversation_id,
                                                       after |-> ask.result]),
                                  !.pc = "returned"]
                        ELSE [ask EXCEPT !.pc = "returned"])

NextAsk == AskLoad \/ AskRun \/ AskClear \/ AskRerun \/ AskFinish

SpecAsk == InitAsk /\ [][NextAsk]_vars

----------------------------------------------------------------------------
(* Specification SpecStream: one run of the async generator stream_claude  *)
(* (claude.py) with its subprocess, its timeout watchdog and its consumer. *)
(* The generator is suspended at each yield and while it awaits the next   *)
(* line; the subprocess writes and exits, and the watchdog fires, on their *)
(* own.                                                                    *)

\* most lines the subprocess writes to stdout
MaxStreamLines == 2

\* a line of stdout: an assistant message with a thinking or a text block, or
\* any other line, with the session_id it may carry
StreamLine(kind, session_id) == [kind |-> kind, session_id |-> session_id]
StreamLines ==
    {StreamLine(k, i) : k \in {"thinking", "text", "other"}, i \in {None, Id2}}

\* an event the generator yields
Event(type, conversation_id) == [type |-> type, conversation_id |-> conversation_id]

\* current_conversation_id or ""
OrEmpty(x) == IF Truthy(x) THEN x ELSE EmptyStr

Finalize_skip(st) == st

\* the finally block: cancel the watchdog if it is not done, kill the process
\* if it has no return code
Finalize(st) ==
    [st EXCEPT !.watchdog = IF @ = "pending" THEN "cancelled" ELSE @,
               !.proc = IF @ = "running" THEN "killed" ELSE @]

\* the generator ends, by its return or by an exception, through finally
Ends(st, exc) == Finalize([st EXCEPT !.pc = "ended", !.exc = exc])

InitStream ==
    /\ RouteIdle
    /\ SessionIdle
    /\ UndoIdle
    /\ voice = [pc |-> "off"]
    /\ calls = <<>>
    /\ chat = [pc |-> "off"]
    /\ ask = [pc |-> "off"]
    /\ \E f \in {NoSession, NotADict, ConvSession(Today, Id1)},
          timeout \in {None, <<"9", "0">>} :
           stream = [pc |-> "start", session |-> f, timeout |-> timeout,
                     current_conversation_id |-> None,
                     proc |-> "none", watchdog |-> "none",
                     written |-> 0, pipe |-> <<>>, events |-> <<>>,
                     saved |-> <<>>, exc |-> "none"]

\* what an action of the generator, the subprocess or the watchdog leaves
StreamStep(st) ==
    /\ stream' = st
    /\ UNCHANGED <<voice, calls, chat, ask>>
    /\ UNCHANGED <<routeVars, sessionVars, undoVars>>

\* the first resumption: get_conversation_id, create_subprocess_exec, the
\* watchdog when a timeout is given, the prompt written to stdin
StreamStart ==
    /\ stream.pc = "start"
    /\ LET got == get_conversation_id(stream.session)
       IN  IF got.exc /= "none"
           THEN StreamStep([stream EXCEPT !.pc = "ended", !.exc = got.exc])
           ELSE \E spawned \in {"ok", "FileNotFoundError", "BrokenPipeError"} :
                    LET st == [stream EXCEPT
                                   !.current_conversation_id = got.ret,
                                   !.proc = IF spawned = "FileNotFoundError"
                                            THEN "none" ELSE "running",
                                   !.watchdog =
                                       IF spawned /= "FileNotFoundError"
                                          /\ stream.timeout /= None
                                       THEN "pending" ELSE "none"]
                    IN  StreamStep(IF spawned = "ok"
                                   THEN [st EXCEPT !.pc = "reading"]
                                   ELSE Ends(st, spawned))

\* async for line in process.stdout: one line is read; a thinking or text
\* block is yielded, any other line is passed over
StreamRead ==
    /\ stream.pc = "reading"
    /\ stream.pipe /= <<>>
    /\ LET line == Head(stream.pipe)
           id == IF line.session_id /= None THEN line.session_id
                 ELSE stream.current_conversation_id
           st == [stream EXCEPT !.pipe = Tail(@), !.current_conversation_id = id]
       IN  StreamStep(IF line.kind \in {"thinking", "text"}
                      THEN [st EXCEPT !.events = Append(@, Event(line.kind, OrEmpty(id))),
                                      !.pc = "yielded"]
                      ELSE st)

\* end of stdout: process.wait(), then RuntimeError on a non-zero return code,
\* else the conversation id is saved and "done" is yielded
StreamEnd ==
    /\ stream.pc = "reading"
    /\ stream.pipe = <<>>
    /\ stream.proc \in {"exited0", "exited1", "killed"}
    /\ StreamStep(
           IF stream.proc /= "exited0"
           THEN Ends(stream, "RuntimeError")
           ELSE LET id == stream.current_conversation_id
                    st == IF Truthy(id)
                          THEN [stream EXCEPT
                                    !.session = save_conversation_id(id),
                                    !.saved = Append(@, [id |-> id,
                                                         events |-> stream.events])]
                          ELSE stream
                IN  [st EXCEPT !.events = Append(@, Event("done", OrEmpty(id))),
                               !.pc = "yielded"])

\* the consumer asks for the next event: after "done" the generator returns
StreamResume ==
    /\ stream.pc = "yielded"
    /\ StreamStep(IF stream.events[Len(stream.events)].type = "done"
                  THEN Ends(stream, "none")
                  ELSE [stream EXCEPT !.pc = "reading"])

\* the consumer gives up at an event: aclose() throws GeneratorExit at the yield
StreamAbandon ==
    /\ stream.pc = "yielded"
    /\ StreamStep(Ends(stream, "GeneratorExit"))

\* the consuming task is cancelled while the generator awaits the next line
StreamCancel ==
    /\ stream.pc = "reading"
    /\ StreamStep(Ends(stream, "CancelledError"))

\* the subprocess writes a line to stdout
ProcWrite ==
    /\ stream.proc = "running"
    /\ stream.written < MaxStreamLines
    /\ \E line \in StreamLines :
           StreamStep([stream EXCEPT !.pipe = Append(@, line),
                                     !.written = @ + 1])

\* the subprocess exits
ProcExit ==
    /\ stream.proc = "running"
    /\ \E code \in {"exited0", "exited1"} :
           StreamStep([stream EXCEPT !.proc = code])

\* kill_on_timeout after its sleep: the process is killed if it has no return
\* code, and the task ends, with TimeoutError in that case
WatchdogFire ==
    /\ stream.watchdog = "pending"
    /\ StreamStep([stream EXCEPT
                       !.watchdog = IF stream.proc = "running"
                                    THEN "raised" ELSE "done",
                       !.proc = IF @ = "running" THEN "killed" ELSE @])

NextStream ==
    \/ StreamStart
    \/ StreamRead
    \/ StreamEnd
    \/ StreamResume
    \/ StreamAbandon
    \/ StreamCancel
    \/ ProcWrite
    \/ ProcExit
    \/ WatchdogFire

SpecStream == InitStream /\ [][NextStream]_vars

----------------
(* Properties of extract_keywords_from_window and get_command_for_agent,   *)
(* checked under SpecExtract                                               *)

Extracted == pc = "done" /\ fn = "extract_keywords_from_window"

Resolved == pc = "done" /\ fn = "get_command_for_agent"

\* the lowercased words of the utterance, and those of the scan window
TextWords == Split(Lower(text))
HeadWords == Take(TextWords, window_size)
TailWords == Drop(TextWords, window_size)

\* the names of the configured agents and commands
AgentNames(cfg) == {cfg.agents[i].name : i \in 1..Len(cfg.agents)}
CommandKeys(cfg) == {cfg.commands[i].name : i \in 1..Len(cfg.commands)}

\* C1: when "agent" is not among the first window_size lowercased words, the
\* result is has_agent_keyword=False, agent_name=None, command=None and the
\* message is the input text verbatim.
Thm_C1_NoAgentKeyword ==
    (Extracted /\ ~InList(W_agent, HeadWords))
        => /\ result.has_agent_keyword = FALSE
           /\ result.agent_name = None
           /\ result.command = None
           /\ result.message = text

\* a capitalised, irregularly spaced utterance whose only "agent" lies after the window
Wit_C1_NoAgentKeyword ==
    /\ Extracted
    /\ ~InList(W_agent, HeadWords)
    /\ InList(W_agent, TailWords)
    /\ text /= Join(TextWords)
    /\ result.message = text

\* C2: a reported command is a key of config.commands, one of whose names is a
\* word of the window, and never the alias that matched.
Thm_C2_CanonicalCommand ==
    (Extracted /\ result.command /= None)
        => \E i \in 1..Len(config.commands) :
               /\ result.command = config.commands[i].name
               /\ \E k \in 1..Len(AllNames(config.commands[i])) :
                      InList(AllNames(config.commands[i])[k], HeadWords)

\* "diet agent add ...": add is an alias of log, and log is reported
Wit_C2_CanonicalCommand ==
    /\ Extracted
    /\ config = CfgDiet
    /\ InList(W_add, HeadWords)
    /\ ~InList(W_log, HeadWords)
    /\ ~InList(W_listen, HeadWords)
    /\ result.agent_name = W_diet
    /\ result.command = W_log

\* the utterance "agent A C m" when the text is exactly "A agent C m" for a
\* configured agent A and a command C available to A
IsAgentFirstForm ==
    /\ Len(TextWords) >= 3
    /\ text = Join(TextWords)
    /\ TextWords[1] \in AgentNames(config)
    /\ TextWords[2] = W_agent
    /\ TextWords[3] \in CommandKeys(config)
    /\ get_command_for_agent(TextWords[3], TextWords[1], config) /= Nothing

Swapped == Join(<<TextWords[2], TextWords[1]>> \o Drop(TextWords, 2))

SameRouting(r1, r2) ==
    /\ r1.agent_name = r2.agent_name
    /\ r1.command = r2.command
    /\ r1.message = r2.message

\* the agents declared before the one named A
DeclaredBefore(cfg, A) ==
    {cfg.agents[j].name : j \in {j \in 1..Len(cfg.agents) :
        \E i \in (j + 1)..Len(cfg.agents) : cfg.agents[i].name = A}}

\* the name, or the name with its hyphens turned into spaces, is a substring
VariantOccurs(name, window_text) ==
    \/ Contains(window_text, name)
    \/ Contains(window_text, ReplaceHyphens(name))

\* no agent declared before A has a variant occurring in either window text
NoEarlierAgentMatches ==
    \A B \in DeclaredBefore(config, TextWords[1]) :
        /\ ~VariantOccurs(B, Join(HeadWords))
        /\ ~VariantOccurs(B, Join(Take(Split(Lower(Swapped)), window_size)))

\* C3 as stated: "A agent C m" and "agent A C m" give the same agent_name,
\* command and message, for every configured agent A and command C allowed for A.
Cex_C3_OrderIndependence ==
    (Extracted /\ IsAgentFirstForm)
        => SameRouting(result,
                       extract_keywords_from_window(Swapped, config, window_size))

\* C3 amended: the two utterances give the same agent_name, command and message
\* when no agent declared before A has a variant that occurs in either window text.
Thm_C3_OrderIndependence ==
    (Extracted /\ IsAgentFirstForm /\ NoEarlierAgentMatches)
        => /\ SameRouting(result,
                          extract_keywords_from_window(Swapped, config, window_size))
           /\ result.agent_name = TextWords[1]

\* "diet agent log pizza" with diet declared second, after an agent matching neither form
Wit_C3_OrderIndependence ==
    /\ Extracted
    /\ IsAgentFirstForm
    /\ window_size = 3
    /\ TextWords = <<W_diet, W_agent, W_log, W_pizza>>
    /\ DeclaredBefore(config, W_diet) /= {}
    /\ NoEarlierAgentMatches
    /\ result.agent_name = W_diet
    /\ result.command = W_log
    /\ result.message = W_pizza

\* C4: the words at index >= window_size change neither has_agent_keyword nor
\* agent_name nor command (the result on the window alone is the same), a
\* keyword is recognised only inside the window, and every word after the
\* window is kept in the message.
Thm_C4_WindowBoundary ==
    Extracted
        => LET head == extract_keywords_from_window(Join(HeadWords), config, window_size)
           IN  /\ result.has_agent_keyword = head.has_agent_keyword
               /\ result.agent_name = head.agent_name
               /\ result.command = head.command
               /\ result.has_agent_keyword <=> InList(W_agent, HeadWords)
               /\ result.agent_name /= None
                      => VariantOccurs(result.agent_name, Join(HeadWords))
               /\ result.command /= None
                      => \E i \in 1..Len(config.commands) :
                             /\ config.commands[i].name = result.command
                             /\ \E k \in 1..Len(AllNames(config.commands[i])) :
                                    InList(AllNames(config.commands[i])[k], HeadWords)
               /\ Split(Lower(result.message)) = Split(Lower(head.message)) \o TailWords

\* "diet agent | log pizza": log lies after a window of two words
Wit_C4_WindowBoundary ==
    /\ Extracted
    /\ config = CfgDiet
    /\ window_size = 2
    /\ TextWords = <<W_diet, W_agent, W_log, W_pizza>>
    /\ result.agent_name = W_diet
    /\ result.command = None
    /\ result.message = Join(<<W_log, W_pizza>>)

\* C5: a reported command is available to the reported agent: its allow-list is
\* empty or holds agent_name, so get_command_for_agent finds it.
Thm_C5_AllowListRespected ==
    (Extracted /\ result.command /= None)
        => /\ get_command_for_agent(result.command, result.agent_name, config) /= Nothing
           /\ \A i \in 1..Len(config.commands) :
                  config.commands[i].name = result.command
                      => \/ config.commands[i].agents = <<>>
                         \/ InList(result.agent_name, config.commands[i].agents)

\* "agent log listen": log is reserved to diet and skipped, listen is reported
Wit_C5_AllowListRespected ==
    /\ Extracted
    /\ config = CfgDiet
    /\ InList(W_log, HeadWords)
    /\ InList(W_listen, HeadWords)
    /\ result.agent_name = None
    /\ result.command = W_listen

\* C6: get_command_for_agent returns the command exactly when the name is
\* configured and its allow-list is empty or holds the agent, None otherwise.
Thm_C6_GetCommandForAgent ==
    Resolved
        => IF \E i \in 1..Len(config.commands) :
                 /\ config.commands[i].name = command_name
                 /\ \/ config.commands[i].agents = <<>>
                    \/ \E k \in 1..Len(config.commands[i].agents) :
                           config.commands[i].agents[k] = agent_name
           THEN /\ result /= Nothing
                /\ result \in {config.commands[i] : i \in 1..Len(config.commands)}
                /\ result.name = command_name
           ELSE result = Nothing

\* log asked for budget: not available
Wit_C6_GetCommandForAgent ==
    /\ Resolved
    /\ config = CfgDiet
    /\ command_name = W_log
    /\ agent_name = W_budget
    /\ result = Nothing

----------------------------------------------------------------------------
(* Properties of the session store, checked under Spec *)

\* the JSON object the file holds, or the empty record a missing or unparsable
\* file is read as
Persisted(f) ==
    IF f.kind = "json" /\ f.value.t = "obj" THEN f.value ELSE Dumps(EmptyDict)

\* the file holds a JSON object
WellFormed(f) == f.kind = "json" /\ f.value.t = "obj"

\* JSON of the snapshot save_last_command(c) stores
JsonLastCommand(c) ==
    [t |-> "obj", agent |-> DumpOpt(c.agent_name), command |-> JStr(c.command),
     message |-> JStr(c.message), agent_path |-> JStr(c.agent_path.path)]

\* C7: once save_current_agent(a) has returned, load_current_agent() returns a,
\* and it keeps returning a after any save_last_command, clear_last_command and
\* get_last_command that follow.
Thm_C7_SessionRoundTrip ==
    lastSaved /= Unset
        => /\ load_current_agent(file, file).exc = "none"
           /\ load_current_agent(file, file).ret = lastSaved
           /\ (lastCall.op = "load_current_agent")
                  => (lastCall.exc = "none" /\ lastCall.ret = lastSaved)

\* save_current_agent("diet"), later a save_last_command, and diet is still current
Wit_C7_SessionRoundTrip ==
    /\ lastSaved = W_diet
    /\ lastCall.op = "save_last_command"
    /\ lastCall.exc = "none"
    /\ Persisted(lastCall.before).last_command = JAbsent
    /\ Persisted(file).last_command /= JAbsent
    /\ load_current_agent(file, file).ret = W_diet

\* C8: save_current_agent changes only current_agent; clear_last_command removes
\* only last_command; get_last_command and load_current_agent leave the file as
\* it is; a call that raises has written nothing.
Thm_C8_SessionFrame ==
    /\ (lastCall.op = "save_current_agent" /\ lastCall.exc = "none")
           => /\ WellFormed(file)
              /\ file.value.last_command = Persisted(lastCall.before).last_command
              /\ file.value.extra = Persisted(lastCall.before).extra
              /\ file.value.current_agent = DumpOpt(lastCall.a)
    /\ (lastCall.op = "clear_last_command" /\ lastCall.exc = "none")
           => /\ WellFormed(file)
              /\ file.value.current_agent = Persisted(lastCall.before).current_agent
              /\ file.value.extra = Persisted(lastCall.before).extra
              /\ file.value.last_command = JAbsent
    /\ (lastCall.op \in {"get_last_command", "load_current_agent"})
           => file = lastCall.before
    /\ (lastCall.op /= "none" /\ lastCall.exc /= "none")
           => file = lastCall.before

\* save_current_agent switched the agent of a record that held a last_command
Wit_C8_SessionFrame ==
    /\ lastCall.op = "save_current_agent"
    /\ lastCall.exc = "none"
    /\ WellFormed(lastCall.before)
    /\ lastCall.before.value.last_command /= JAbsent
    /\ lastCall.before.value.current_agent /= DumpOpt(lastCall.a)
    /\ file.value.last_command = lastCall.before.value.last_command

\* the file contents C9 is about: missing, unreadable, undecodable, not JSON,
\* JSON but no object
Damaged(f) == ~WellFormed(f)

\* C9 as stated: on a missing, unreadable or malformed session file no call
\* raises, load_current_agent and get_last_command return None, and the saving
\* and clearing calls leave a well-formed record.
Cex_C9_CorruptionSwallowed ==
    (lastCall.op /= "none" /\ Damaged(lastCall.before))
        => /\ lastCall.exc = "none"
           /\ (lastCall.op = "load_current_agent") => lastCall.ret = None
           /\ (lastCall.op = "get_last_command") => lastCall.ret = Nothing
           /\ (lastCall.op \in {"save_current_agent", "save_last_command",
                                "clear_last_command"})
                  => WellFormed(file)

\* C10: of two requests whose calls both returned, one save_current_agent(a) and
\* the other save_last_command(c) or clear_last_command, the file holds both
\* effects (unless a later call assigned the same key again).
Thm_C10_NoLostUpdate ==
    \A p, q \in Requests :
        (/\ p /= q
         /\ req[p].st = "done" /\ req[p].exc = "none" /\ req[p].live
         /\ req[q].st = "done" /\ req[q].exc = "none" /\ req[q].live
         /\ req[p].call.op = "save_current_agent"
         /\ req[q].call.op \in {"save_last_command", "clear_last_command"})
            => /\ WellFormed(file)
               /\ file.value.current_agent = DumpOpt(req[p].call.a)
               /\ file.value.last_command =
                      IF req[q].call.op = "clear_last_command" THEN JAbsent
                      ELSE JsonLastCommand(req[q].call.c)

\* two requests in flight together: save_last_command ran after the other
\* request's save_current_agent("diet"), and both effects are in the file
Wit_C10_NoLostUpdate ==
    \E p, q \in Requests :
        /\ p /= q
        /\ req[p].st = "done" /\ req[p].exc = "none" /\ req[p].live
        /\ req[q].st = "done" /\ req[q].exc = "none" /\ req[q].live
        /\ req[p].overlap \/ req[q].overlap
        /\ req[p].call.op = "save_current_agent"
        /\ req[p].call.a = W_diet
        /\ req[q].call.op = "save_last_command"
        /\ lastCall.op = "save_last_command"
        /\ Persisted(lastCall.before).current_agent = JStr(W_diet)
        /\ Persisted(lastCall.before).last_command = JAbsent
        /\ file.value.current_agent = JStr(W_diet)
        /\ file.value.last_command = JsonLastCommand(req[q].call.c)

----------------------------------------------------------------------------
(* Properties of undo_last, checked under SpecUndo *)

\* undo_last has been called at least once
Undid == undo.st = "call" /\ Len(undo.rets) >= 1

\* what the last call returned
LastRet == undo.rets[Len(undo.rets)]

\* the directory the calls work on
UndoDir == fs[undo.agent_path]

\* a line holding one JSON record: an object from "{" to "}"
IsJsonRecord(line) == line /= <<>> /\ Head(line) = "{" /\ line[Len(line)] = "}"

\* the journal text of n >= 1 newline-terminated JSON records
IsRecordJournal(journal, ls) ==
    /\ Len(ls) >= 1
    /\ \A i \in 1..Len(ls) : IsJsonRecord(ls[i])
    /\ journal = Terminated(ls)

\* C11: when the journal held n >= 1 newline-terminated records, undo_last("log")
\* returned True and left the first n-1 records, each newline-terminated and in
\* order (the empty file for n = 1); notes.md is untouched.
Thm_C11_UndoLog ==
    (Undid /\ undo.command = W_log)
        => \A ls \in LineSeqs :
               IsRecordJournal(undo.before.journal, ls)
                   => /\ LastRet = TRUE
                      /\ UndoDir.journal = Terminated(SubSeq(ls, 1, Len(ls) - 1))
                      /\ UndoDir.notes = undo.before.notes

\* two undos of a three-record journal whose last two records are the same:
\* the first record is what is left
Wit_C11_UndoLog ==
    /\ Undid
    /\ undo.command = W_log
    /\ undo.rets = <<TRUE, TRUE>>
    /\ undo.before.journal = Terminated(<<RecordB, RecordA>>)
    /\ UndoDir.journal = Terminated(<<RecordB>>)

\* the cases C12 lists: an unknown command, no journal or no notes file, a
\* journal that is empty once whitespace is trimmed
NothingToUndo(command, dir) ==
    \/ command \notin {W_log, W_listen, W_note}
    \/ command = W_log /\ dir.journal = NoFile
    \/ command = W_log /\ dir.journal /= NoFile /\ Strip(dir.journal) = EmptyStr
    \/ command \in {W_listen, W_note} /\ dir.notes = NoFile

\* C12: a call with nothing to undo returned False and left every file as it
\* was, none created; so did the call before it, if there was one.
Thm_C12_NothingToUndo ==
    (Undid /\ NothingToUndo(undo.command, undo.before))
        => /\ LastRet = FALSE
           /\ UndoDir = undo.before
           /\ \A d \in Dirs \ {undo.agent_path} : fs[d] = EmptyDir
           /\ \A k \in 1..Len(undo.rets) :
                  undo.rets[k] = FALSE
                      => \A m \in k..Len(undo.rets) : undo.rets[m] = FALSE

\* undo_last("log") twice on a journal of one blank line: False both times
Wit_C12_NothingToUndo ==
    /\ Undid
    /\ undo.command = W_log
    /\ undo.rets = <<FALSE, FALSE>>
    /\ undo.before.journal = <<" ", "\n">>
    /\ UndoDir.journal = <<" ", "\n">>

\* a "## <date> <time>" line starts at i
HeaderLineAt(content, i) ==
    /\ i = 1 \/ content[i - 1] = "\n"
    /\ i + Len(HeaderPattern) - 2 <= Len(content)
    /\ \A k \in 2..Len(HeaderPattern) :
           ItemMatches(HeaderPattern[k], content[i + k - 2])

HasSection(content) == \E i \in 1..Len(content) : HeaderLineAt(content, i)

\* where the last section starts
LastSection(content) ==
    Max({i \in 1..Len(content) : HeaderLineAt(content, i)})

\* content with its last section removed, with or without the newline that
\* separates the section from what precedes it
WithoutLastSection(content) ==
    {SubSeq(content, 1, LastSection(content) - 1),
     SubSeq(content, 1, Max({LastSection(content) - 2, 0}))}

\* C13 as stated: when notes.md holds a "## <date> <time>" section, undo_last of
\* listen or note returns True and removes the last section and nothing else;
\* it returns False, leaving the file as it was, only when there is no section.
Cex_C13_UndoNote ==
    (Undid /\ undo.command \in {W_listen, W_note} /\ undo.before.notes /= NoFile)
        => IF HasSection(undo.before.notes)
           THEN /\ LastRet = TRUE
                /\ UndoDir.notes \in WithoutLastSection(undo.before.notes)
                /\ UndoDir.journal = undo.before.journal
           ELSE /\ LastRet = FALSE
                /\ UndoDir = undo.before

----------------------------------------------------------------------------
(* Further properties of the routing functions, checked under SpecExtract *)

\* the canonical names of the universal commands one of whose names is a word
\* of the window
UniversalInWindow(cfg, window) ==
    {cfg.commands[i].name : i \in {i \in 1..Len(cfg.commands) :
        /\ cfg.commands[i].agents = <<>>
        /\ \/ InList(cfg.commands[i].name, window)
           \/ \E k \in 1..Len(cfg.commands[i].aliases) :
                  InList(cfg.commands[i].aliases[k], window)}}

\* no configured agent is named in the window
NoAgentNamed(cfg, window) ==
    \A i \in 1..Len(cfg.agents) : ~VariantOccurs(cfg.agents[i].name, Join(window))

\* the words after the last keyword of the window
Payload(words, cfg, ws) ==
    Drop(words, Max({i \in 1..Len(Take(words, ws)) : IsKeyword(words[i], cfg)}))

\* C14: when the window holds "agent" and a name or alias of a universal command
\* but names no configured agent, has_agent_keyword is True, agent_name is None,
\* command is that command's canonical name and message is the words after the
\* keywords.
Thm_C14_DefaultAgent ==
    (/\ Extracted
     /\ InList(W_agent, HeadWords)
     /\ NoAgentNamed(config, HeadWords)
     /\ UniversalInWindow(config, HeadWords) /= {})
        => /\ result.has_agent_keyword = TRUE
           /\ result.agent_name = None
           /\ result.command \in UniversalInWindow(config, HeadWords)
           /\ result.message = Join(Payload(TextWords, config, window_size))

\* "agent add pizza" where add is an alias of the universal command listen
Wit_C14_DefaultAgent ==
    /\ Extracted
    /\ config = CfgHyphen
    /\ TextWords = <<W_agent, W_add, W_pizza>>
    /\ window_size = 3
    /\ NoAgentNamed(config, HeadWords)
    /\ result.agent_name = None
    /\ result.command = W_listen
    /\ result.message = W_pizza

\* the agent names that hold a hyphen
HyphenAgents(cfg) ==
    {n \in AgentNames(cfg) : \E k \in 1..Len(n) : n[k] = "-"}

\* the two ways of saying "<A> agent": the name as one word, or its parts
Forms(A) == {<<A, W_agent>>, Split(ReplaceHyphens(A)) \o <<W_agent>>}

\* the window starts with the form
StartsWith(form) ==
    /\ Len(form) <= Len(HeadWords)
    /\ SubSeq(HeadWords, 1, Len(form)) = form

\* the message is what follows the form, or a later part of it
StrippedOf(form) ==
    \E k \in Len(form)..Len(TextWords) : result.message = Join(Drop(TextWords, k))

\* C15 as stated: for an agent A with a hyphenated name, "<A> agent" and "<A with
\* spaces> agent" in the window both give agent_name A, and the words of the
\* name are not part of the message.
Cex_C15_MultiWordAgent ==
    Extracted
        => \A A \in HyphenAgents(config) : \A form \in Forms(A) :
               StartsWith(form)
                   => /\ result.agent_name = A
                      /\ StrippedOf(form)

\* C15 amended: the same, provided no agent declared before A has its name or
\* its space-separated variant occurring in the window text.
Thm_C15_MultiWordAgent ==
    Extracted
        => \A A \in HyphenAgents(config) : \A form \in Forms(A) :
               (/\ StartsWith(form)
                /\ \A B \in DeclaredBefore(config, A) :
                       ~VariantOccurs(B, Join(HeadWords)))
                   => /\ result.agent_name = A
                      /\ StrippedOf(form)

\* "diet log agent pizza" names the agent diet-log, declared first
Wit_C15_MultiWordAgent ==
    /\ Extracted
    /\ config = CfgHyphen
    /\ window_size = 3
    /\ TextWords = <<W_diet, W_log, W_agent, W_pizza>>
    /\ StartsWith(Split(ReplaceHyphens(W_diet_log)) \o <<W_agent>>)
    /\ result.agent_name = W_diet_log
    /\ result.message = W_pizza

\* C16: every call returns: extract_keywords_from_window gives a result with its
\* four fields set (a bool, an agent name or None, a command name or None, a
\* str that is the text or a tail of its words), get_command_for_agent gives a
\* configured command or None.
Thm_C16_NeverRaises ==
    /\ Extracted
           => /\ DOMAIN result =
                      {"has_agent_keyword", "agent_name", "command", "message"}
              /\ result.has_agent_keyword \in BOOLEAN
              /\ result.agent_name \in {None} \cup AgentNames(config)
              /\ result.command \in {None} \cup CommandKeys(config)
              /\ result.message /= None
              /\ \/ result.message = text
                 \/ \E k \in 0..Len(TextWords) :
                        result.message = Join(Drop(TextWords, k))
    /\ Resolved
           => \/ result = Nothing
              \/ \E i \in 1..Len(config.commands) : result = config.commands[i]

\* a text of one space, routed with the empty configuration
Wit_C16_NeverRaises ==
    /\ Extracted
    /\ text = <<" ">>
    /\ config = CfgEmpty
    /\ result.has_agent_keyword = FALSE
    /\ result.message = <<" ">>

\* load_agents_config has run
Loaded == pc = "done" /\ fn = "load_agents_config"

\* C17: every loaded agent has the trigger "<name> agent", then "<name with its
\* hyphens turned into spaces> agent" exactly when the name holds a hyphen, and
\* no other trigger.
Thm_C17_Triggers ==
    (Loaded /\ raw /= NoConfigFile)
        => /\ Len(config.agents) = Len(raw.agents)
           /\ \A i \in 1..Len(config.agents) :
                  LET name == raw.agents[i].name
                      triggers == config.agents[i].triggers
                  IN  /\ config.agents[i].name = name
                      /\ triggers[1] = Join(<<name, W_agent>>)
                      /\ IF \E k \in 1..Len(name) : name[k] = "-"
                         THEN /\ Len(triggers) = 2
                              /\ triggers[2] =
                                     Join(Split(ReplaceHyphens(name)) \o <<W_agent>>)
                         ELSE Len(triggers) = 1

\* the agents diet-log and diet loaded: two triggers for the first, one for the second
Wit_C17_Triggers ==
    /\ Loaded
    /\ raw = RawHyphen
    /\ config.agents[1].triggers =
           <<Join(<<W_diet_log, W_agent>>), Join(<<W_diet, W_log, W_agent>>)>>
    /\ config.agents[2].triggers = <<Join(<<W_diet, W_agent>>)>>

----------------------------------------------------------------------------
(* Properties of process_voice, checked under SpecVoice *)

\* the handler has answered a request
Answered == voice.pc = "done"

\* the session file the request found was absent or held a JSON object
SessionIntact == voice.start = MissingFile \/ WellFormed(voice.start)

\* the window of the request's transcription
VoiceWindow == Window(Words(voice.text), DefaultWindowSize)

\* the request went through the keyword extraction
Keyworded == InList(W_agent, VoiceWindow)

\* the commands named by a word of the window whose list of agents is not
\* empty and lacks the selected agent
Unavailable ==
    {i \in 1..Len(config.commands) :
        /\ config.commands[i].agents /= <<>>
        /\ ~InList(voice.current_agent_name, config.commands[i].agents)
        /\ \E k \in 1..Len(AllNames(config.commands[i])) :
               InList(AllNames(config.commands[i])[k], VoiceWindow)}

\* the calls of the request to f
CallsTo(f) == {i \in 1..Len(calls) : calls[i].f = f}

\* C18 as stated: a request whose window names a command that the selected
\* agent may not use ends with the error sound; execute_command and ask_claude
\* are not called.
Cex_C18_UnavailableCommand ==
    (Answered /\ Keyworded /\ SessionIntact /\ Unavailable /= {})
        => /\ voice.response = "error_sound"
           /\ CallsTo("execute_command") = {}
           /\ CallsTo("ask_claude") = {}

\* the request executed a regular command with success
Executed ==
    \E i \in CallsTo("execute_command") :
        /\ calls[i].command \notin BuiltIns
        /\ calls[i].ret = TRUE

\* the snapshot of the request: its agent, command, message and directory
RequestSnapshot ==
    LastCommandRecord([agent_name |-> voice.current_agent_name,
                       command |-> voice.command_name,
                       message |-> voice.message,
                       agent_path |-> Path(voice.cwd)])

\* C19 as stated: after a request that executed a regular command, the
\* last_command of the session file is the snapshot of that request.
Cex_C19_LastCommandOverwritten ==
    (Answered /\ SessionIntact /\ Executed)
        => /\ WellFormed(file)
           /\ Persisted(file).last_command = Dumps(
                  [EmptyDict EXCEPT !.last_command = RequestSnapshot]).last_command

\* the last_command the request found in the session file
Recorded == get_last_command(voice.start, voice.start).ret

\* the request carried the undo command and found the session file intact
UndoAnswered == Answered /\ voice.command_name = W_undo /\ SessionIntact

\* the request follows an undo request
FollowsUndo == voice.prev.command_name = W_undo

BuiltInRequest == Answered /\ voice.command_name \in BuiltIns

\* C21 as stated: a request whose extracted command is undo, repeat or
\* research calls neither execute_command nor ask_claude.
Cex_C21_BuiltInsNotForwarded ==
    (BuiltInRequest /\ SessionIntact)
        => /\ CallsTo("execute_command") = {}
           /\ CallsTo("ask_claude") = {}

\* the session file names an agent as current_agent
Named(f) == WellFormed(f) /\ Persisted(f).current_agent.t = "str"

\* a step takes the current_agent from an agent name to None
Cleared == Named(file) /\ WellFormed(file') /\ Persisted(file').current_agent = JNull

\* the step is the routing of a request whose window holds the keyword "agent"
\* and names no configured agent
RouteToDefault ==
    /\ Route
    /\ InList(W_agent, Window(Words(voice.text), DefaultWindowSize))
    /\ FindAgent(config, Join(Window(Words(voice.text), DefaultWindowSize))) = None

\* the same, of a request that names no command either
RouteToDefaultOnly ==
    /\ RouteToDefault
    /\ voice'.command_name = None

\* C22 as stated: only a switch to the default agent clears current_agent; a
\* request that only issues a command does not.
Cex_C22_CurrentAgentKept ==
    [][Cleared => (SwitchAgentTo(W_default) \/ RouteToDefaultOnly)]_vars

\* C22: current_agent goes from an agent name to None only by a switch to
\* "default" or by a voice request with the keyword "agent" that names no
\* configured agent, with or without a command.
Thm_C22_CurrentAgentKept ==
    [][Cleared => (SwitchAgentTo(W_default) \/ RouteToDefault)]_vars

\* "agent undo" or "agent listen ..." was routed and cleared the agent that the
\* session file named when the request arrived
Wit_C22_CurrentAgentKept ==
    /\ voice.pc = "command"
    /\ voice.command_name \in {W_undo, W_listen}
    /\ Named(voice.start)
    /\ WellFormed(file)
    /\ Persisted(file).current_agent = JNull

\* the step is one of the voice handler, for a request whose window lacks the
\* keyword "agent"
StickyStep ==
    /\ voice' /= voice
    /\ ~InList(W_agent, Window(Words(voice'.text), DefaultWindowSize))

\* the directory of the agent the session file names: the path of a configured
\* agent, else the project directory
PersistedDir(f) ==
    LET name == load_current_agent(f, f).ret
        found == {i \in 1..Len(config.agents) : config.agents[i].name = name}
    IN  IF found = {} THEN ProjectDir
        ELSE config.agents[CHOOSE i \in found : TRUE].path

\* C23 as stated: a voice request without the keyword "agent" never writes the
\* session file, and it forwards its text to the LLM in the directory of the
\* persisted current agent, or in the project directory when no configured
\* agent is persisted.
Cex_C23_StickyRouting ==
    [][StickyStep =>
          /\ file' = file
          /\ voice.pc = "claude" =>
                 calls' = <<Call("ask_claude", None, voice.text,
                                 PersistedDir(file), TRUE)>>]_vars

----------------------------------------------------------------------------
(* Properties of chat and chat_audio, checked under SpecChat *)

\* C24 as stated: the directories a handler uses when it resumes are those of
\* the agent the session file names at that time.
Cex_C24_NoStaleAgent ==
    [][(chat.pc = "streaming" /\ chat'.pc = "done") =>
          /\ chat'.cwd = PersistedDir(file)
          /\ chat'.conversations_dir =
                 get_conversations_dir(load_current_agent(file, file).ret)]_vars

----------------------------------------------------------------------------
(* Properties of execute_command, checked under SpecExec *)

\* a prompt file for the command exists, for the agent or globally
PromptExists == exec.agent_cmd_file /= NoFile \/ exec.global_cmd_file /= NoFile

\* C25 as stated: execute_command never raises; it returns True only when a
\* prompt was found and the CLI exited with code 0; without a prompt it returns
\* False and does not invoke the CLI; it returns False when the CLI exits with
\* another code, times out or raises.
Cex_C25_ExecuteCommand ==
    exec.st = "done" =>
        /\ exec.out.exc = "none"
        /\ exec.out.ret = (PromptExists /\ exec.cli = "exit0")
        /\ ~PromptExists => exec.out.invoked = <<>>

----------------------------------------------------------------------------
(* Properties of the extracted message, checked under SpecExtract *)

\* the words that count as keywords: "agent", every command name and alias
\* whatever its allow-list, every agent name and every hyphen-separated part
\* of an agent name
KeywordWords(cfg) ==
    {W_agent}
        \cup {cfg.commands[c].name : c \in 1..Len(cfg.commands)}
        \cup UNION {{cfg.commands[c].aliases[k] :
                         k \in 1..Len(cfg.commands[c].aliases)} :
                    c \in 1..Len(cfg.commands)}
        \cup {cfg.agents[a].name : a \in 1..Len(cfg.agents)}
        \cup UNION {{Split(ReplaceHyphens(cfg.agents[a].name))[k] :
                         k \in 1..Len(Split(ReplaceHyphens(cfg.agents[a].name)))} :
                    a \in 1..Len(cfg.agents)}

\* k is the 1-based place of the last keyword among the window's words
LastKeywordAt(k) ==
    /\ k \in 1..Len(HeadWords)
    /\ HeadWords[k] \in KeywordWords(config)
    /\ \A j \in (k + 1)..Len(HeadWords) : HeadWords[j] \notin KeywordWords(config)

\* C26: when the window holds "agent", message is the lower-cased words
\* strictly after the last keyword of the window, joined by single spaces, and
\* is empty when that keyword is the last word of the text.
Thm_C26_MessageAfterLastKeyword ==
    (Extracted /\ result.has_agent_keyword = TRUE) =>
        \E k \in 1..Len(HeadWords) :
            /\ LastKeywordAt(k)
            /\ result.message =
                   JoinWith(SubSeq(TextWords, k + 1, Len(TextWords)), <<" ">>)
            /\ (k = Len(TextWords) => result.message = EmptyStr)

\* "Agent  Log pizza pizza" heard for no agent: log is reserved to diet and is
\* not matched, yet it is the last keyword and the message is "pizza pizza"
Wit_C26_MessageAfterLastKeyword ==
    /\ Extracted
    /\ result.has_agent_keyword = TRUE
    /\ text /= Lower(text)
    /\ result.command = None
    /\ LastKeywordAt(2)
    /\ HeadWords[2] = W_log
    /\ result.message = W_pizza \o <<" ">> \o W_pizza

----------------------------------------------------------------------------
(* Properties of ties, checked under SpecExtract *)

\* the agents, by place in the configuration, a variant of whose name is a
\* substring of the window text
AgentsInWindow ==
    {a \in 1..Len(config.agents) :
        \/ Contains(JoinWith(HeadWords, <<" ">>), config.agents[a].name)
        \/ Contains(JoinWith(HeadWords, <<" ">>),
                    ReplaceHyphens(config.agents[a].name))}

\* the commands, by place in the configuration, that the reported agent may
\* use and one of whose names is a word of the window
AllowedInWindow ==
    {c \in 1..Len(config.commands) :
        /\ \/ config.commands[c].agents = <<>>
           \/ InList(result.agent_name, config.commands[c].agents)
        /\ \/ InList(config.commands[c].name, HeadWords)
           \/ \E k \in 1..Len(config.commands[c].aliases) :
                  InList(config.commands[c].aliases[k], HeadWords)}

\* the least of a non-empty set of places
First(S) == CHOOSE m \in S : \A x \in S : m <= x

\* the place in the window of the first word equal to w
PlaceOf(w) == First({i \in 1..Len(HeadWords) : HeadWords[i] = w})

\* C27: when the window matches several agents, or several commands the agent
\* may use, the one reported is the one declared first in the configuration,
\* wherever they stand in the utterance.
Thm_C27_ConfigurationOrder ==
    (Extracted /\ result.has_agent_keyword = TRUE) =>
        /\ AgentsInWindow /= {} =>
               result.agent_name = config.agents[First(AgentsInWindow)].name
        /\ AllowedInWindow /= {} =>
               result.command = config.commands[First(AllowedInWindow)].name

\* "diet agent diet-log" names diet before diet-log, which is declared first;
\* "agent pizza log" names the command pizza before log, which is declared first
Wit_C27_ConfigurationOrder ==
    /\ Extracted
    /\ result.has_agent_keyword = TRUE
    /\ \/ /\ Cardinality(AgentsInWindow) = 2
          /\ InList(W_diet, HeadWords)
          /\ InList(W_diet_log, HeadWords)
          /\ PlaceOf(W_diet) < PlaceOf(W_diet_log)
          /\ result.agent_name = W_diet_log
       \/ /\ Cardinality(AllowedInWindow) = 2
          /\ PlaceOf(W_pizza) < PlaceOf(W_log)
          /\ result.command = W_log

----------------------------------------------------------------------------
(* Properties of word-based command matching, checked under SpecExtract *)

\* the names and aliases of the commands
CommandWords ==
    UNION {{AllNames(config.commands[c])[k] :
               k \in 1..Len(AllNames(config.commands[c]))} :
              c \in 1..Len(config.commands)}

\* the word is longer than a command name or alias it holds, and is no keyword
\* itself
Embeds(word) ==
    /\ word \notin KeywordWords(config)
    /\ \E name \in CommandWords : Contains(word, name) /\ word /= name

\* the window's last word embeds a command name and the window holds no word
\* equal to a name of that command
OnlyEmbedded(c) ==
    /\ Len(HeadWords) > 0
    /\ Embeds(HeadWords[Len(HeadWords)])
    /\ Contains(HeadWords[Len(HeadWords)], config.commands[c].name)
    /\ \A k \in 1..Len(AllNames(config.commands[c])) :
           ~InList(AllNames(config.commands[c])[k], HeadWords)

\* C28: a command is reported only if a whole word of the window equals its
\* canonical name or one of its aliases; a word that merely embeds a command
\* name reports no command and the message is not cut after it.
Thm_C28_WordBasedCommand ==
    (Extracted /\ result.has_agent_keyword = TRUE) =>
        /\ result.command /= None =>
               \E c \in 1..Len(config.commands) :
                   /\ config.commands[c].name = result.command
                   /\ \E i \in 1..Len(HeadWords) :
                          \/ HeadWords[i] = config.commands[c].name
                          \/ \E k \in 1..Len(config.commands[c].aliases) :
                                 HeadWords[i] = config.commands[c].aliases[k]
        /\ \A i \in 1..Len(HeadWords) :
               Embeds(HeadWords[i]) =>
                   /\ ~LastKeywordAt(i)
                   /\ result.message /=
                          JoinWith(SubSeq(TextWords, i + 1, Len(TextWords)), <<" ">>)

\* "diet agent logging" where log is a command diet may use: no command is
\* reported and the message is "logging"
Wit_C28_WordBasedCommand ==
    /\ Extracted
    /\ result.has_agent_keyword = TRUE
    /\ result.agent_name = W_diet
    /\ \E c \in 1..Len(config.commands) :
           /\ config.commands[c].name = W_log
           /\ InList(W_diet, config.commands[c].agents)
           /\ OnlyEmbedded(c)
    /\ HeadWords[Len(HeadWords)] = W_logging
    /\ result.command = None
    /\ result.message = W_logging

----------------------------------------------------------------------------
(* Properties of ask_claude, checked under SpecAsk *)

\* the call has ended, by a return or by an exception
AskEnded == ask.pc \in {"returned", "raised"}

\* the invocation exited with a code other than 0
ExitedNonZero(i) == i.result.exc = "none" /\ i.result.returncode /= 0

\* the session file held a conversation id of today
SameDayId(f) == f.kind = "object" /\ f.date = Today /\ Truthy(f.conversation_id)

\* C29: ask_claude invokes the CLI at most twice; the second invocation is
\* made only after a first one that exited non-zero with a same-day
\* conversation id loaded, without --resume and with the stored id cleared; a
\* conversation id is saved only after an invocation that exited with 0; when
\* the last invocation exits non-zero or times out, RuntimeError is raised.
Thm_C29_AskClaudeRetry ==
    ask.pc /= "off" =>
        /\ Len(ask.invoked) <= 2
        /\ Len(ask.invoked) = 2 =>
               /\ ExitedNonZero(ask.invoked[1])
               /\ SameDayId(ask.invoked[1].session)
               /\ ask.invoked[1].cmd.resume = ask.invoked[1].session.conversation_id
               /\ ask.invoked[2].cmd.resume = None
               /\ ask.invoked[2].session = NoSession
        /\ \A k \in 1..Len(ask.saved) :
               /\ ask.invoked /= <<>>
               /\ ask.saved[k].after = ask.invoked[Len(ask.invoked)].result
               /\ ask.saved[k].after.exc = "none"
               /\ ask.saved[k].after.returncode = 0
        /\ (/\ AskEnded
            /\ ask.invoked /= <<>>
            /\ \/ ExitedNonZero(ask.invoked[Len(ask.invoked)])
               \/ ask.invoked[Len(ask.invoked)].result.exc = "TimeoutExpired")
               => ask.pc = "raised" /\ ask.exc = "RuntimeError"

\* a stale id: the resumed invocation exits with 1, the one made afresh exits
\* with 0 and its conversation id is saved
Wit_C29_AskClaudeRetry ==
    /\ ask.pc = "returned"
    /\ Len(ask.invoked) = 2
    /\ ask.invoked[1].cmd.resume = Id1
    /\ ask.invoked[2].result = CompletedProcess(0, Id2)
    /\ Len(ask.saved) = 1
    /\ ask.session = ConvSession(Today, Id2)

----------------------------------------------------------------------------
(* Properties of stream_claude, checked under SpecStream *)

\* the places of the "done" events among those yielded
Dones == {i \in 1..Len(stream.events) : stream.events[i].type = "done"}

\* C30: "done" is yielded at most once, after every thinking and text event
\* and only when the subprocess exited with code 0, the conversation id having
\* been saved before it; once the generator has ended, however it ended, the
\* subprocess is not running and the timeout watchdog is not pending.
Thm_C30_StreamDone ==
    stream.pc /= "off" =>
        /\ Cardinality(Dones) <= 1
        /\ \A i \in Dones :
               /\ i = Len(stream.events)
               /\ stream.proc = "exited0"
               /\ stream.events[i].conversation_id /= EmptyStr =>
                      /\ Len(stream.saved) = 1
                      /\ stream.saved[1].id = stream.events[i].conversation_id
                      /\ stream.saved[1].events = SubSeq(stream.events, 1, i - 1)
                      /\ stream.session = ConvSession(Today, stream.saved[1].id)
        /\ stream.pc = "ended" =>
               /\ stream.proc /= "running"
               /\ stream.watchdog /= "pending"

\* a text event, then "done" with the id just saved; the generator returns
\* before the timeout and cancels the watchdog
Wit_C30_StreamDone ==
    /\ stream.pc = "ended"
    /\ stream.exc = "none"
    /\ Len(stream.events) = 2
    /\ stream.events[1].type = "text"
    /\ stream.events[2] = Event("done", Id2)
    /\ stream.session = ConvSession(Today, Id2)
    /\ stream.watchdog = "cancelled"

====
